---- MODULE Spec2Model ----
(***************************************************************************)
(* Catalog loading, exact search resolution and fuzzy candidate ranking of *)
(* the parts-catalog browser.  Two engines live in the repository:         *)
(*   - the CSV engine with the module-level _cache (src/unnamed/part_000): *)
(*     parseCSV, load, the DB accessors and runSearch;                     *)
(*   - the fuzzy engine (src/Ecomm Project/Ecomm Project/search.js):       *)
(*     DB.init, key, window.runSearch, findBestCandidates, score.          *)
(* A string is a sequence of one-character strings.                        *)
(***************************************************************************)
EXTENDS Integers, Sequences, FiniteSets, TLC

\* An optional value (a number or null, an object or undefined): None or Some(v).
None == <<>>

Some(v) == <<v>>

IsSome(o) == Len(o) > 0

TheValue(o) == o[1]

(***************************************************************************)
(* Characters and strings                                                  *)
(***************************************************************************)
UpperChars == <<"A","B","C","D","E","F","G","H","I","J","K","L","M",
                "N","O","P","Q","R","S","T","U","V","W","X","Y","Z">>
LowerChars == <<"a","b","c","d","e","f","g","h","i","j","k","l","m",
                "n","o","p","q","r","s","t","u","v","w","x","y","z">>
DigitChars == <<"0","1","2","3","4","5","6","7","8","9">>

\* The byte-order mark U+FEFF, one character of the text.
BOM == "BOM"
QUOTE == "\""
LF == "\n"
CR == "\r"

\* What /\s/ matches and what String.prototype.trim removes.
IsSpace(c) == c \in {" ", "\t", LF, CR, BOM}

IsDigit(c) == \E i \in 1..10 : DigitChars[i] = c

DigitVal(c) == (CHOOSE i \in 1..10 : DigitChars[i] = c) - 1

toLowerChar(c) ==
  IF \E i \in 1..26 : UpperChars[i] = c
  THEN LowerChars[CHOOSE i \in 1..26 : UpperChars[i] = c]
  ELSE c

toUpperChar(c) ==
  IF \E i \in 1..26 : LowerChars[i] = c
  THEN UpperChars[CHOOSE i \in 1..26 : LowerChars[i] = c]
  ELSE c

toLowerCase(s) == [i \in 1..Len(s) |-> toLowerChar(s[i])]

toUpperCase(s) == [i \in 1..Len(s) |-> toUpperChar(s[i])]

SetMin(S) == CHOOSE x \in S : \A y \in S : x <= y

SetMax(S) == CHOOSE x \in S : \A y \in S : x >= y

\* String.prototype.trim
trim(s) ==
  LET keep == {i \in 1..Len(s) : ~IsSpace(s[i])}
  IN  IF keep = {} THEN <<>> ELSE SubSeq(s, SetMin(keep), SetMax(keep))

NotSpace(c) == ~IsSpace(c)

\* part_000: function stripBOM(text) { return text.replace(/^\uFEFF/, ""); }
stripBOM(text) ==
  IF Len(text) > 0 /\ text[1] = BOM THEN Tail(text) ELSE text

\* part_000: function norm(s) { return String(s || "").trim().toLowerCase(); }
norm(s) == toLowerCase(trim(s))

\* parseInt(str, 10) on a trimmed string: an optional sign, then the longest
\* run of digits; None (NaN) when there is no digit.
RECURSIVE digitsValue(_, _, _)
digitsValue(s, i, acc) ==
  IF i > Len(s) \/ ~IsDigit(s[i]) THEN acc
  ELSE digitsValue(s, i + 1, acc * 10 + DigitVal(s[i]))

parseInt10(s) ==
  LET signed == Len(s) > 0 /\ s[1] \in {"-", "+"}
      body   == IF signed THEN Tail(s) ELSE s
  IN  IF Len(body) = 0 \/ ~IsDigit(body[1]) THEN None
      ELSE IF signed /\ s[1] = "-" THEN Some(0 - digitsValue(body, 1, 0))
      ELSE Some(digitsValue(body, 1, 0))

\* part_000: function toInt(v): Number.isFinite(n) ? n : null
toInt(v) == parseInt10(trim(v))

\* a ?? b
Coalesce(a, b) == IF IsSome(a) THEN TheValue(a) ELSE b

(***************************************************************************)
(* Money.  A price is Some(whole number of cents), or None for null.       *)
(***************************************************************************)
IsMoneyChar(c) == IsDigit(c) \/ c = "."

RECURSIVE Pow10(_)
Pow10(k) == IF k = 0 THEN 1 ELSE 10 * Pow10(k - 1)

\* Number(s) for s made of digits and dots only: [int, frac, k] standing for
\* int + frac / 10^k, or None (NaN) for "." and for more than one dot.
NumberOfDigitsAndDots(s) ==
  LET dots == {i \in 1..Len(s) : s[i] = "."}
  IN  IF Cardinality(dots) > 1 THEN None
      ELSE IF dots = {} THEN Some([int |-> digitsValue(s, 1, 0), frac |-> 0, k |-> 0])
      ELSE LET d  == CHOOSE i \in dots : TRUE
               ip == SubSeq(s, 1, d - 1)
               fp == SubSeq(s, d + 1, Len(s))
           IN  IF Len(ip) = 0 /\ Len(fp) = 0 THEN None
               ELSE Some([int  |-> digitsValue(ip, 1, 0),
                          frac |-> digitsValue(fp, 1, 0),
                          k    |-> Len(fp)])

MONEY_MAX_CENTS == 99999

\* part_000: parseMoneyUSD.  n * 100 is (int * 10^k + frac) * 100 / 10^k;
\* Math.round is floor(x + 0.5).
parseMoneyUSD(v) ==
  LET s == SelectSeq(v, IsMoneyChar)
  IN  IF Len(s) = 0 THEN None
      ELSE LET parsed == NumberOfDigitsAndDots(s)
           IN  IF ~IsSome(parsed) THEN None
               ELSE LET n    == TheValue(parsed)
                        den  == Pow10(n.k)
                        num0 == (n.int * den + n.frac) * 100
                        neg  == num0 < 0
                        num1 == IF neg THEN 0 ELSE num0
                        num2 == IF num1 > MONEY_MAX_CENTS * den
                                THEN MONEY_MAX_CENTS * den ELSE num1
                    IN  Some((2 * num2 + den) \div (2 * den))

(***************************************************************************)
(* parseCSV of part_000                                                    *)
(***************************************************************************)
\* The state of the scanning loop: the index i of the next character, the
\* field and the row being read, the rows read, and inQuotes.
ScanStart == [i |-> 1, field |-> <<>>, row |-> <<>>, rows |-> <<>>, inQuotes |-> FALSE]

\* One turn of the while loop (lines 37-52), at text[st.i].
csvStep(text, st) ==
  LET c    == text[st.i]
      next == IF st.i + 1 <= Len(text) THEN text[st.i + 1] ELSE "EOT"
      endRow(skip) == [i |-> st.i + skip, field |-> <<>>, row |-> <<>>,
                       rows |-> Append(st.rows, Append(st.row, st.field)),
                       inQuotes |-> FALSE]
  IN  IF st.inQuotes THEN
        IF c = QUOTE THEN
          IF next = QUOTE
          THEN [st EXCEPT !.field = Append(st.field, QUOTE), !.i = st.i + 2]
          ELSE [st EXCEPT !.inQuotes = FALSE, !.i = st.i + 1]
        ELSE [st EXCEPT !.field = Append(st.field, c), !.i = st.i + 1]
      ELSE
        IF c = QUOTE THEN [st EXCEPT !.inQuotes = TRUE, !.i = st.i + 1]
        ELSE IF c = ","
          THEN [st EXCEPT !.row = Append(st.row, st.field), !.field = <<>>, !.i = st.i + 1]
        ELSE IF c = LF THEN endRow(1)
        ELSE IF c = CR THEN endRow(IF next = LF THEN 2 ELSE 1)
        ELSE [st EXCEPT !.field = Append(st.field, c), !.i = st.i + 1]

\* The loop over the positions lo..hi: a position the loop jumped over
\* (i += 2) is not visited.  The range is halved, and the state after the
\* first half is computed before the second half is entered, to keep the
\* evaluation shallow.
RECURSIVE scanRange(_, _, _, _, _)
scanRange(step(_, _), text, st, lo, hi) ==
  IF lo > hi THEN st
  ELSE IF lo = hi THEN (IF st.i = lo THEN step(text, st) ELSE st)
  ELSE LET mid  == (lo + hi) \div 2
           left == scanRange(step, text, st, lo, mid)
       IN  IF left.i > 0 THEN scanRange(step, text, left, mid + 1, hi) ELSE left

\* The loop and the two pushes after it (line 53).
csvScan(text) ==
  LET st == scanRange(csvStep, text, ScanStart, 1, Len(text))
  IN  Append(st.rows, Append(st.row, st.field))

RowIsBlank(row) == \A j \in 1..Len(row) : row[j] = <<>>

\* while (rows.length && rows[rows.length - 1].every(v => v === "")) rows.pop();
RECURSIVE popBlankRows(_)
popBlankRows(rows) ==
  IF Len(rows) > 0 /\ RowIsBlank(rows[Len(rows)])
  THEN popBlankRows(SubSeq(rows, 1, Len(rows) - 1))
  ELSE rows

NotSpaceOrUnderscore(c) == ~IsSpace(c) /\ c # "_"

\* h.toLowerCase().replace(/[\s_]+/g, "")
canonHeader(h) == SelectSeq(toLowerCase(h), NotSpaceOrUnderscore)

\* One record: a function from the canonical header keys to the trimmed cells;
\* obj[key] = val for c = 0, 1, ... so the last column of a repeated key wins.
csvRecord(headers, line) ==
  [k \in {headers[c] : c \in 1..Len(headers)} |->
     LET c == SetMax({j \in 1..Len(headers) : headers[j] = k})
     IN  IF c <= Len(line) THEN trim(line[c]) ELSE <<>>]

parseCSV(text0) ==
  LET text == stripBOM(text0)
      rows == popBlankRows(csvScan(text))
  IN  IF Len(rows) = 0 THEN <<>>
      ELSE LET headers == [c \in 1..Len(rows[1]) |-> canonHeader(rows[1][c])]
           IN  [r \in 1..(Len(rows) - 1) |-> csvRecord(headers, rows[r + 1])]

\* (r.name || "") for a record r: every read of a parsed field has this form,
\* which turns the undefined of an absent column into the empty string.
Field(r, k) == IF k \in DOMAIN r THEN r[k] ELSE <<>>

(***************************************************************************)
(* Maps (objects made by Object.create(null), and Map): functions from     *)
(* strings to values                                                       *)
(***************************************************************************)
EmptyMap == [k \in {} |-> 0]

Put(f, k, v) == [x \in (DOMAIN f) \cup {k} |-> IF x = k THEN v ELSE f[x]]

Has(f, k) == k \in DOMAIN f

\* f[k], undefined when absent
Get(f, k) == IF k \in DOMAIN f THEN Some(f[k]) ELSE None

\* a || b on two optional objects
OrElse(a, b) == IF IsSome(a) THEN a ELSE b

(***************************************************************************)
(* String.prototype.localeCompare in the root collation: punctuation       *)
(* before digits before letters; letters compare by letter first and by    *)
(* case (lower before upper) only when the strings are otherwise equal.    *)
(***************************************************************************)
PunctChars == <<"_", "-", ",", ".", QUOTE, "$">>

PrimaryRank(c) ==
  IF IsSpace(c) THEN 0
  ELSE IF \E i \in 1..Len(PunctChars) : PunctChars[i] = c
    THEN CHOOSE i \in 1..Len(PunctChars) : PunctChars[i] = c
  ELSE IF IsDigit(c) THEN 20 + DigitVal(c)
  ELSE IF \E i \in 1..26 : LowerChars[i] = toLowerChar(c)
    THEN 40 + (CHOOSE i \in 1..26 : LowerChars[i] = toLowerChar(c))
  ELSE 100

CaseRank(c) == IF \E i \in 1..26 : UpperChars[i] = c THEN 1 ELSE 0

\* -1, 0 or 1 by the first position where rank differs, a proper prefix first
RECURSIVE compareBy(_, _, _, _)
compareBy(rank(_), a, b, i) ==
  IF i > Len(a) /\ i > Len(b) THEN 0
  ELSE IF i > Len(a) THEN -1
  ELSE IF i > Len(b) THEN 1
  ELSE IF rank(a[i]) < rank(b[i]) THEN -1
  ELSE IF rank(a[i]) > rank(b[i]) THEN 1
  ELSE compareBy(rank, a, b, i + 1)

localeCompare(a, b) ==
  LET primary == compareBy(PrimaryRank, a, b, 1)
  IN  IF primary # 0 THEN primary ELSE compareBy(CaseRank, a, b, 1)

\* Array.prototype.sort (stable) of a sequence under cmp(a, b) < 0 / = 0 / > 0:
\* insertion of each element after the last element not greater than it.
RECURSIVE insertSorted(_, _, _)
insertSorted(cmp(_, _), sorted, x) ==
  IF Len(sorted) = 0 THEN <<x>>
  ELSE IF cmp(sorted[Len(sorted)], x) <= 0 THEN Append(sorted, x)
  ELSE Append(insertSorted(cmp, SubSeq(sorted, 1, Len(sorted) - 1), x),
              sorted[Len(sorted)])

RECURSIVE sortBy(_, _)
sortBy(cmp(_, _), list) ==
  IF Len(list) = 0 THEN <<>>
  ELSE insertSorted(cmp, sortBy(cmp, SubSeq(list, 1, Len(list) - 1)), list[Len(list)])

(***************************************************************************)
(* The CSV engine (part_000): entities                                     *)
(***************************************************************************)
\* The canonical keys load reads from the parsed records.
K_id == <<"i","d">>

K_brand == <<"b","r","a","n","d">>

K_modelnumber == <<"m","o","d","e","l","n","u","m","b","e","r">>

K_modelid == <<"m","o","d","e","l","i","d">>

K_name == <<"n","a","m","e">>

K_order == <<"o","r","d","e","r">>

K_image == <<"i","m","a","g","e">>

K_schematicid == <<"s","c","h","e","m","a","t","i","c","i","d">>

K_diagramno == <<"d","i","a","g","r","a","m","n","o">>

K_partid == <<"p","a","r","t","i","d">>

K_number == <<"n","u","m","b","e","r">>

K_manufacturer == <<"m","a","n","u","f","a","c","t","u","r","e","r">>

K_description == <<"d","e","s","c","r","i","p","t","i","o","n">>

K_productstatus == <<"p","r","o","d","u","c","t","s","t","a","t","u","s">>

K_inventory == <<"i","n","v","e","n","t","o","r","y">>

K_price == <<"p","r","i","c","e">>

\* models.csv row -> Model (lines 101-104)
toModel(r) ==
  [id          |-> trim(Field(r, K_id)),
   brand       |-> trim(Field(r, K_brand)),
   modelNumber |-> trim(Field(r, K_modelnumber))]

\* .filter(m => m.id || m.modelNumber)
keepModel(m) == m.id # <<>> \/ m.modelNumber # <<>>

\* schematics.csv row -> Schematic (lines 108-113)
toSchematic(r) ==
  [id      |-> trim(Field(r, K_id)),
   modelId |-> trim(Field(r, K_modelid)),
   name    |-> trim(Field(r, K_name)),
   order   |-> Coalesce(toInt(Field(r, K_order)), 0),
   image   |-> trim(Field(r, K_image))]

\* .filter(s => s.id && s.modelId)
keepSchematic(sc) == sc.id # <<>> /\ sc.modelId # <<>>

\* schematic_parts.csv row -> link (lines 117-121)
toLink(r) ==
  [schematicId |-> trim(Field(r, K_schematicid)),
   diagramNo   |-> Coalesce(toInt(Field(r, K_diagramno)), 0),
   order       |-> Coalesce(toInt(Field(r, K_order)), 0),
   partId      |-> trim(Field(r, K_partid))]

\* .filter(l => l.schematicId && l.partId)
keepLink(l) == l.schematicId # <<>> /\ l.partId # <<>>

\* parts.csv row -> Part (lines 125-133); number falls back to the id
toPart(r) ==
  [id            |-> trim(Field(r, K_id)),
   number        |-> trim(IF Field(r, K_number) # <<>> THEN Field(r, K_number)
                          ELSE Field(r, K_id)),
   manufacturer  |-> trim(Field(r, K_manufacturer)),
   name          |-> trim(Field(r, K_name)),
   description   |-> trim(Field(r, K_description)),
   productStatus |-> trim(Field(r, K_productstatus)),
   inventory     |-> Coalesce(toInt(Field(r, K_inventory)), 0),
   price         |-> parseMoneyUSD(Field(r, K_price))]

\* .filter(p => p.id || p.number)
keepPart(p) == p.id # <<>> \/ p.number # <<>>

\* rows.map(conv).filter(keep)
RECURSIVE mapFilter(_, _, _)
mapFilter(conv(_), keep(_), rows) ==
  IF Len(rows) = 0 THEN <<>>
  ELSE LET rest == mapFilter(conv, keep, SubSeq(rows, 1, Len(rows) - 1))
           e    == conv(rows[Len(rows)])
       IN  IF keep(e) THEN Append(rest, e) ELSE rest

(***************************************************************************)
(* The CSV engine: indexes.  An index entry is a reference to an entity:   *)
(* its position in the collection.                                         *)
(***************************************************************************)
\* models.forEach (lines 140-148): [byId, byNumber] after the first n models
RECURSIVE indexModels(_, _)
indexModels(models, n) ==
  IF n = 0 THEN [byId |-> EmptyMap, byNumber |-> EmptyMap]
  ELSE LET prev == indexModels(models, n - 1)
           m    == models[n]
           byId1 == IF m.id # <<>> THEN Put(prev.byId, m.id, n) ELSE prev.byId
       IN  IF m.modelNumber # <<>>
           THEN [byNumber |-> Put(prev.byNumber, norm(m.modelNumber), n),
                 byId     |-> IF ~Has(byId1, m.modelNumber)
                              THEN Put(byId1, m.modelNumber, n) ELSE byId1]
           ELSE [byNumber |-> prev.byNumber, byId |-> byId1]

\* schematics.forEach (lines 153-157): [byId, byModel], lists in push order
RECURSIVE indexSchematics(_, _)
indexSchematics(schematics, n) ==
  IF n = 0 THEN [byId |-> EmptyMap, byModel |-> EmptyMap]
  ELSE LET prev == indexSchematics(schematics, n - 1)
           sc   == schematics[n]
           list == IF Has(prev.byModel, sc.modelId) THEN prev.byModel[sc.modelId]
                   ELSE <<>>
       IN  [byId    |-> Put(prev.byId, sc.id, n),
            byModel |-> Put(prev.byModel, sc.modelId, Append(list, n))]

\* parts.forEach (lines 164-167): [byId, byIdLower, byNumber]
RECURSIVE indexParts(_, _)
indexParts(parts, n) ==
  IF n = 0 THEN [byId |-> EmptyMap, byIdLower |-> EmptyMap, byNumber |-> EmptyMap]
  ELSE LET prev == indexParts(parts, n - 1)
           p    == parts[n]
       IN  [byId      |-> IF p.id # <<>> THEN Put(prev.byId, p.id, n) ELSE prev.byId,
            byIdLower |-> IF p.id # <<>> THEN Put(prev.byIdLower, norm(p.id), n)
                          ELSE prev.byIdLower,
            byNumber  |-> IF p.number # <<>> THEN Put(prev.byNumber, norm(p.number), n)
                          ELSE prev.byNumber]

\* schematicParts.forEach (lines 171-174): lists in push order
RECURSIVE indexLinks(_, _)
indexLinks(links, n) ==
  IF n = 0 THEN EmptyMap
  ELSE LET prev == indexLinks(links, n - 1)
           l    == links[n]
           list == IF Has(prev, l.schematicId) THEN prev[l.schematicId] ELSE <<>>
       IN  Put(prev, l.schematicId, Append(list, n))

\* (a.order - b.order) || a.id.localeCompare(b.id)
cmpSchematics(a, b) ==
  IF a.order # b.order THEN a.order - b.order ELSE localeCompare(a.id, b.id)

\* A comparator that looks at the order only.
cmpLinksByOrderOnly(a, b) == a.order - b.order

\* (a.order - b.order) || (a.diagramNo - b.diagramNo) || a.partId.localeCompare(b.partId)
cmpLinks(a, b) ==
  IF a.order # b.order THEN a.order - b.order
  ELSE IF a.diagramNo # b.diagramNo THEN a.diagramNo - b.diagramNo
  ELSE localeCompare(a.partId, b.partId)

\* Object.values(map).forEach(list => list.sort(cmp)), the lists holding references
sortLists(cmp(_, _), coll, map) ==
  LET cmpRef(i, j) == cmp(coll[i], coll[j])
  IN  [k \in DOMAIN map |-> sortBy(cmpRef, map[k])]

\* A catalog whose parts are populated while their number index is still empty.
buildCatalogNoPartNumbers(modelsTxt, schemsTxt, linksTxt, partsTxt) ==
  LET models         == mapFilter(toModel, keepModel, parseCSV(modelsTxt))
      schematics     == mapFilter(toSchematic, keepSchematic, parseCSV(schemsTxt))
      schematicParts == mapFilter(toLink, keepLink, parseCSV(linksTxt))
      parts          == mapFilter(toPart, keepPart, parseCSV(partsTxt))
      mi == indexModels(models, Len(models))
      si == indexSchematics(schematics, Len(schematics))
      pi == indexParts(parts, Len(parts))
      li == indexLinks(schematicParts, Len(schematicParts))
  IN  [models          |-> models,
       schematics      |-> schematics,
       schematicParts  |-> schematicParts,
       parts           |-> parts,
       modelsById      |-> mi.byId,
       modelsByNumber  |-> mi.byNumber,
       schemsById      |-> si.byId,
       schemsByModel   |-> sortLists(cmpSchematics, schematics, si.byModel),
       partsById       |-> pi.byId,
       partsByIdLower  |-> pi.byIdLower,
       partsByNumber   |-> EmptyMap,
       linkBySchematic |-> sortLists(cmpLinks, schematicParts, li)]

\* Lines 95-192 of load: the object assigned to _cache, from the four texts.
buildCatalog(modelsTxt, schemsTxt, linksTxt, partsTxt) ==
  LET models         == mapFilter(toModel, keepModel, parseCSV(modelsTxt))
      schematics     == mapFilter(toSchematic, keepSchematic, parseCSV(schemsTxt))
      schematicParts == mapFilter(toLink, keepLink, parseCSV(linksTxt))
      parts          == mapFilter(toPart, keepPart, parseCSV(partsTxt))
      mi == indexModels(models, Len(models))
      si == indexSchematics(schematics, Len(schematics))
      pi == indexParts(parts, Len(parts))
      li == indexLinks(schematicParts, Len(schematicParts))
  IN  [models          |-> models,
       schematics      |-> schematics,
       schematicParts  |-> schematicParts,
       parts           |-> parts,
       modelsById      |-> mi.byId,
       modelsByNumber  |-> mi.byNumber,
       schemsById      |-> si.byId,
       schemsByModel   |-> sortLists(cmpSchematics, schematics, si.byModel),
       partsById       |-> pi.byId,
       partsByIdLower  |-> pi.byIdLower,
       partsByNumber   |-> pi.byNumber,
       linkBySchematic |-> sortLists(cmpLinks, schematicParts, li)]

(***************************************************************************)
(* The served files.  A CSV text is written from a header and rows of      *)
(* cells; the four texts of one site are what the fetches return.          *)
(***************************************************************************)
RECURSIVE joinWith(_, _)
joinWith(sep, list) ==
  IF Len(list) = 0 THEN <<>>
  ELSE IF Len(list) = 1 THEN list[1]
  ELSE list[1] \o sep \o joinWith(sep, Tail(list))

csvText(header, rows) ==
  joinWith(<<LF>>, <<joinWith(<<",">>, header)>>
                   \o [i \in 1..Len(rows) |-> joinWith(<<",">>, rows[i])])

\* The headers documented at the top of part_000 (lines 3-6).
H_modelNumber == <<"m","o","d","e","l","N","u","m","b","e","r">>
H_modelID == <<"m","o","d","e","l","I","D">>
H_schematicID == <<"s","c","h","e","m","a","t","i","c","I","D">>
H_diagramNo == <<"d","i","a","g","r","a","m","N","o">>
H_partID == <<"p","a","r","t","I","D">>
H_productStatus == <<"p","r","o","d","u","c","t","S","t","a","t","u","s">>

ModelsHeader == <<K_id, K_brand, H_modelNumber>>

SchematicsHeader == <<K_id, H_modelID, K_name, K_order, K_image>>

LinksHeader == <<H_schematicID, H_diagramNo, K_order, H_partID>>

PartsHeader == <<K_id, K_number, K_manufacturer, K_name, K_description,
                 H_productStatus, K_inventory, K_price>>

Sources == {"models", "schematics", "links", "parts"}

\* The body of a response with a non-success status (an error page).
ErrorBody == <<"N","o","t"," ","F","o","u","n","d">>

(***************************************************************************)
(* The fuzzy engine (search.js): helpers                                   *)
(***************************************************************************)
NotGrouping(c) == ~IsSpace(c) /\ c # "-" /\ c # "_"

\* A key whose replace has no g flag: only the first grouping character goes.
keyFirstOnly(s) ==
  LET u    == toUpperCase(s)
      hits == {i \in 1..Len(u) : ~NotGrouping(u[i])}
  IN  IF hits = {} THEN trim(u)
      ELSE trim(SubSeq(u, 1, SetMin(hits) - 1) \o SubSeq(u, SetMin(hits) + 1, Len(u)))

\* search.js: function key(s){ return String(s || '').toUpperCase().replace(/[\s\-_]/g,'').trim(); }
key(s) == trim(SelectSeq(toUpperCase(s), NotGrouping))

IsNumChar(c) == IsDigit(c) \/ c = "." \/ c = "-"

\* search.js: function toNum(v): Number(String(v).replace(/[^0-9.-]/g, '')), 0 when
\* not finite.  The number is [num, den]: num / den with den a power of ten.
fz_toNum(v) ==
  LET s      == SelectSeq(v, IsNumChar)
      neg    == Len(s) > 0 /\ s[1] = "-"
      body   == IF neg THEN Tail(s) ELSE s
      parsed == IF \E i \in 1..Len(body) : body[i] = "-" THEN None
                ELSE IF Len(body) = 0 THEN (IF neg THEN None ELSE Some([int |-> 0, frac |-> 0, k |-> 0]))
                ELSE NumberOfDigitsAndDots(body)
  IN  IF ~IsSome(parsed) THEN [num |-> 0, den |-> 1]
      ELSE LET n == TheValue(parsed)
               m == n.int * Pow10(n.k) + n.frac
           IN  [num |-> IF neg THEN 0 - m ELSE m, den |-> Pow10(n.k)]

\* The scanning loop of search.js parseCSV: pushRow drops a row that is one
\* empty field.
fz_pushRow(rows, row) == IF row = << <<>> >> THEN rows ELSE Append(rows, row)

\* One turn of the while loop of search.js parseCSV (lines 129-148).
fz_csvStep(text, st) ==
  LET c    == text[st.i]
      next == IF st.i + 1 <= Len(text) THEN text[st.i + 1] ELSE "EOT"
      endRow(skip) == [i |-> st.i + skip, field |-> <<>>, row |-> <<>>,
                       rows |-> fz_pushRow(st.rows, Append(st.row, st.field)),
                       inQuotes |-> FALSE]
  IN  IF st.inQuotes THEN
        IF c = QUOTE THEN
          IF next = QUOTE
          THEN [st EXCEPT !.field = Append(st.field, QUOTE), !.i = st.i + 2]
          ELSE [st EXCEPT !.inQuotes = FALSE, !.i = st.i + 1]
        ELSE [st EXCEPT !.field = Append(st.field, c), !.i = st.i + 1]
      ELSE
        IF c = QUOTE THEN [st EXCEPT !.inQuotes = TRUE, !.i = st.i + 1]
        ELSE IF c = ","
          THEN [st EXCEPT !.row = Append(st.row, st.field), !.field = <<>>, !.i = st.i + 1]
        ELSE IF c = CR THEN endRow(IF next = LF THEN 2 ELSE 1)
        ELSE IF c = LF THEN endRow(1)
        ELSE [st EXCEPT !.field = Append(st.field, c), !.i = st.i + 1]

\* The loop, then pushField(); pushRow() (line 149).
fz_csvScan(text) ==
  LET st == scanRange(fz_csvStep, text, ScanStart, 1, Len(text))
  IN  fz_pushRow(st.rows, Append(st.row, st.field))

\* obj[headers[c]] = rowVals[c] !== undefined ? rowVals[c] : ''
fz_csvRecord(headers, line) ==
  [k \in {headers[c] : c \in 1..Len(headers)} |->
     LET c == SetMax({j \in 1..Len(headers) : headers[j] = k})
     IN  IF c <= Len(line) THEN line[c] ELSE <<>>]

\* search.js parseCSV: headers trimmed, keys and cells otherwise verbatim
fz_parseCSV(text) ==
  LET rows == fz_csvScan(text)
  IN  IF Len(rows) = 0 THEN <<>>
      ELSE LET headers == [c \in 1..Len(rows[1]) |-> trim(rows[1][c])]
           IN  [r \in 1..(Len(rows) - 1) |-> fz_csvRecord(headers, rows[r + 1])]

\* r.a || r.b || ... : the first non-empty field; an absent or empty last
\* operand reads as the empty string wherever the result is used.
RECURSIVE orChain(_, _)
orChain(r, keys) ==
  IF Len(keys) = 0 THEN <<>>
  ELSE IF Field(r, keys[1]) # <<>> THEN Field(r, keys[1])
  ELSE orChain(r, Tail(keys))

(***************************************************************************)
(* The fuzzy engine: DB.init's build (lines 38-82)                         *)
(***************************************************************************)
fz_toModel(r) ==
  [id          |-> orChain(r, <<<<"i","d">>, <<"I","D">>, <<"m","o","d","e","l","I","D">>, <<"m","o","d","e","l","I","d">>, <<"m","o","d","e","l">>, <<"m","o","d","e","l","N","u","m","b","e","r">>>>),
   brand       |-> orChain(r, <<<<"b","r","a","n","d">>, <<"B","r","a","n","d">>>>),
   modelNumber |-> orChain(r, <<<<"m","o","d","e","l","N","u","m","b","e","r">>, <<"m","o","d","e","l">>, <<"i","d">>>>)]

fz_toSchematic(r) ==
  [id      |-> orChain(r, <<<<"i","d">>, <<"I","D">>>>),
   modelID |-> orChain(r, <<<<"m","o","d","e","l","I","D">>, <<"m","o","d","e","l","I","d">>, <<"m","o","d","e","l">>>>),
   name    |-> orChain(r, <<<<"n","a","m","e">>, <<"N","a","m","e">>>>),
   order   |-> fz_toNum(orChain(r, <<<<"o","r","d","e","r">>, <<"O","r","d","e","r">>>>)),
   image   |-> orChain(r, <<<<"i","m","a","g","e">>, <<"I","m","a","g","e">>>>)]

fz_toPart(r) ==
  [id            |-> orChain(r, <<<<"i","d">>, <<"I","D">>>>),
   number        |-> orChain(r, <<<<"n","u","m","b","e","r">>, <<"N","u","m","b","e","r">>>>),
   manufacturer  |-> orChain(r, <<<<"m","a","n","u","f","a","c","t","u","r","e","r">>, <<"M","a","n","u","f","a","c","t","u","r","e","r">>>>),
   name          |-> orChain(r, <<<<"n","a","m","e">>, <<"N","a","m","e">>>>),
   description   |-> orChain(r, <<<<"d","e","s","c","r","i","p","t","i","o","n">>, <<"D","e","s","c","r","i","p","t","i","o","n">>>>),
   productStatus |-> orChain(r, <<<<"p","r","o","d","u","c","t","S","t","a","t","u","s">>, <<"s","t","a","t","u","s">>, <<"S","t","a","t","u","s">>>>),
   inventory     |-> fz_toNum(orChain(r, <<<<"i","n","v","e","n","t","o","r","y">>, <<"I","n","v","e","n","t","o","r","y">>>>)),
   price         |-> fz_toNum(orChain(r, <<<<"p","r","i","c","e">>, <<"P","r","i","c","e">>>>))]

\* rows.map(conv): no row is filtered out
mapRows(conv(_), rows) == [i \in 1..Len(rows) |-> conv(rows[i])]

\* for (const m of this.models) (lines 70-75): modelByKey after the first n
RECURSIVE fz_indexModels(_, _)
fz_indexModels(models, n) ==
  IF n = 0 THEN EmptyMap
  ELSE LET prev == fz_indexModels(models, n - 1)
           m    == models[n]
       IN  IF m.modelNumber = <<>> THEN prev
           ELSE LET byNum == Put(prev, key(m.modelNumber), n)
                IN  IF m.id # <<>> THEN Put(byNum, key(m.id), n) ELSE byNum

\* for (const s of this.schematics) (lines 76-78)
RECURSIVE fz_indexSchematics(_, _)
fz_indexSchematics(schematics, n) ==
  IF n = 0 THEN EmptyMap
  ELSE LET prev == fz_indexSchematics(schematics, n - 1)
           sc   == schematics[n]
       IN  IF sc.id # <<>> THEN Put(prev, key(sc.id), n) ELSE prev

\* for (const p of this.parts) (lines 79-82): [byIdKey, byNumberKey]
RECURSIVE fz_indexParts(_, _)
fz_indexParts(parts, n) ==
  IF n = 0 THEN [byIdKey |-> EmptyMap, byNumberKey |-> EmptyMap]
  ELSE LET prev == fz_indexParts(parts, n - 1)
           p    == parts[n]
       IN  [byIdKey     |-> IF p.id # <<>> THEN Put(prev.byIdKey, key(p.id), n)
                            ELSE prev.byIdKey,
            byNumberKey |-> IF p.number # <<>> THEN Put(prev.byNumberKey, key(p.number), n)
                            ELSE prev.byNumberKey]

\* The fields DB holds once the body of init has run on the three texts.
fz_buildDB(modelsTxt, schemTxt, partsTxt) ==
  LET models     == mapRows(fz_toModel, fz_parseCSV(modelsTxt))
      schematics == mapRows(fz_toSchematic, fz_parseCSV(schemTxt))
      parts      == mapRows(fz_toPart, fz_parseCSV(partsTxt))
      pi         == fz_indexParts(parts, Len(parts))
  IN  [models     |-> models,
       schematics |-> schematics,
       parts      |-> parts,
       ix |-> [modelByKey      |-> fz_indexModels(models, Len(models)),
               schematicByKey  |-> fz_indexSchematics(schematics, Len(schematics)),
               partByIdKey     |-> pi.byIdKey,
               partByNumberKey |-> pi.byNumberKey]]

\* The DB object literal (lines 16-28): nothing loaded, ready unset.
fz_emptyDB ==
  [models |-> <<>>, schematics |-> <<>>, parts |-> <<>>,
   ix |-> [modelByKey |-> EmptyMap, schematicByKey |-> EmptyMap,
           partByIdKey |-> EmptyMap, partByNumberKey |-> EmptyMap]]

(***************************************************************************)
(* Scores.  A score is the exact rational [n, d] (n / d in lowest terms)   *)
(* of the double the code computes.  For query keys of at most 3           *)
(* characters and candidate keys of at most 9, every comparison the code   *)
(* makes on its doubles (thresholds, Math.max, the sort, the gap) has the  *)
(* outcome of the same comparison on these rationals; the first            *)
(* disagreement is a loose similarity of 4/5, where the double             *)
(* (1 - 1/5) * 0.75 is 0.6000000000000001 > 0.6.                            *)
(***************************************************************************)
RECURSIVE Gcd(_, _)
Gcd(a, b) == IF b = 0 THEN a ELSE Gcd(b, a % b)

Rat(n, d) == LET g == Gcd(n, d) IN [n |-> n \div g, d |-> d \div g]

RZero == [n |-> 0, d |-> 1]

ROne == [n |-> 1, d |-> 1]

RLess(a, b) == a.n * b.d < b.n * a.d

RLeq(a, b) == a.n * b.d <= b.n * a.d

\* the sign of a - b
RCompare(a, b) == IF RLess(a, b) THEN -1 ELSE IF RLess(b, a) THEN 1 ELSE 0

RMax(a, b) == IF RLess(a, b) THEN b ELSE a

RTimes(a, b) == Rat(a.n * b.n, a.d * b.d)

\* a - b >= c, for a >= b
RGapAtLeast(a, b, c) == (a.n * b.d - b.n * a.d) * c.d >= c.n * a.d * b.d

startsWith(hay, q) == Len(q) <= Len(hay) /\ SubSeq(hay, 1, Len(q)) = q

includes(hay, q) ==
  \E i \in 1..(Len(hay) - Len(q) + 1) : SubSeq(hay, i, i + Len(q) - 1) = q

Min3(x, y, z) == IF x <= y /\ x <= z THEN x ELSE IF y <= z THEN y ELSE z

\* The inner loop of editDistance (lines 346-351): dp[0..n] is kept as the
\* sequence row, row[j + 1] = dp[j]; old is the row of i - 1.
RECURSIVE edRow(_, _, _, _, _, _)
edRow(a, b, i, old, new, j) ==
  IF j > Len(b) THEN new
  ELSE LET cell == IF a[i] = b[j] THEN old[j]
                   ELSE Min3(old[j] + 1, old[j + 1] + 1, new[j] + 1)
       IN  edRow(a, b, i, old, Append(new, cell), j + 1)

RECURSIVE edRows(_, _, _, _)
edRows(a, b, i, dp) ==
  IF i > Len(a) THEN dp
  ELSE edRows(a, b, i + 1, edRow(a, b, i, dp, <<i>>, 1))

\* search.js: editDistance (lines 339-354)
editDistance(a, b) ==
  IF Len(a) = 0 THEN Len(b)
  ELSE IF Len(b) = 0 THEN Len(a)
  ELSE edRows(a, b, 1, [j \in 1..(Len(b) + 1) |-> j - 1])[Len(b) + 1]

MaxOf(x, y) == IF x >= y THEN x ELSE y

\* A score without the prefix case: a prefix is scored as any substring.
scoreNoPrefix(qKey, hayRaw) ==
  LET hayKey == key(hayRaw)
  IN  IF hayKey = <<>> THEN RZero
      ELSE IF hayKey = qKey THEN ROne
      ELSE IF includes(hayKey, qKey) THEN Rat(90 * Len(qKey), 100 * Len(hayKey))
      ELSE LET d      == editDistance(qKey, hayKey)
               maxLen == MaxOf(Len(qKey), Len(hayKey))
           IN  Rat(85 * (maxLen - d), 100 * maxLen)

\* A score whose edit-distance similarity is dampened by 0.95.
scoreDamped95(qKey, hayRaw) ==
  LET hayKey == key(hayRaw)
  IN  IF hayKey = <<>> THEN RZero
      ELSE IF hayKey = qKey THEN ROne
      ELSE IF startsWith(hayKey, qKey) THEN Rat(97 * Len(qKey), 100 * Len(hayKey))
      ELSE IF includes(hayKey, qKey) THEN Rat(90 * Len(qKey), 100 * Len(hayKey))
      ELSE LET d      == editDistance(qKey, hayKey)
               maxLen == MaxOf(Len(qKey), Len(hayKey))
           IN  Rat(95 * (maxLen - d), 100 * maxLen)

\* search.js: score (lines 315-327)
score(qKey, hayRaw) ==
  LET hayKey == key(hayRaw)
  IN  IF hayKey = <<>> THEN RZero
      ELSE IF hayKey = qKey THEN ROne
      ELSE IF startsWith(hayKey, qKey) THEN Rat(97 * Len(qKey), 100 * Len(hayKey))
      ELSE IF includes(hayKey, qKey) THEN Rat(90 * Len(qKey), 100 * Len(hayKey))
      ELSE LET d      == editDistance(qKey, hayKey)
               maxLen == MaxOf(Len(qKey), Len(hayKey))
           IN  Rat(85 * (maxLen - d), 100 * maxLen)

\* search.js: scoreLoose (lines 329-336)
scoreLoose(qKey, text) ==
  LET hay == key(text)
  IN  IF hay = <<>> THEN RZero
      ELSE IF includes(hay, qKey)
        THEN Rat(88 * Len(qKey), 100 * MaxOf(Len(hay), Len(qKey)))
      ELSE LET d      == editDistance(qKey, hay)
               maxLen == MaxOf(Len(qKey), Len(hay))
           IN  Rat(75 * (maxLen - d), 100 * maxLen)

(***************************************************************************)
(* Candidate generation (findBestCandidates, pickUniqueRoute).  A route    *)
(* `page?id=${encodeURIComponent(id)}` is the record [page, id].            *)
(***************************************************************************)
Route(page, id) == [page |-> page, id |-> id]

\* a || b on strings
StrOr(a, b) == IF a # <<>> THEN a ELSE b

THRESH_MODELS == Rat(55, 100)

THRESH_PARTS == Rat(55, 100)

THRESH_SCHEMS == Rat(6, 10)

PRIMARY_ENOUGH == Rat(7, 10)

LOOSE_DAMPING == Rat(9, 10)

TOP_MIN == Rat(9, 10)

GAP_MIN == Rat(12, 100)

DefaultLimits == [limitModels |-> 8, limitParts |-> 8, limitSchems |-> 5]

\* lines 242-244: the object pushed for a model, with its score
modelEntry(qNorm, m) ==
  [score |-> score(qNorm, StrOr(m.modelNumber, m.id)),
   label |-> m.modelNumber, sub |-> m.brand,
   route |-> Route("model.html", StrOr(m.modelNumber, m.id))]

\* lines 241-245: one model's candidate, or None when its score is not above 0.55
modelCandidate(qNorm, m) ==
  IF RLess(THRESH_MODELS, modelEntry(qNorm, m).score)
  THEN Some(modelEntry(qNorm, m)) ELSE None

\* A part score that would take the loose score as it is.
partScoreUndamped(qNorm, p) ==
  LET primary == StrOr(p.number, p.id)
      s       == score(qNorm, primary)
  IN  IF RLess(s, PRIMARY_ENOUGH) /\ (p.name # <<>> \/ p.description # <<>>)
      THEN LET ln == IF p.name # <<>> THEN scoreLoose(qNorm, p.name) ELSE RZero
               ld == IF p.description # <<>> THEN scoreLoose(qNorm, p.description)
                     ELSE RZero
           IN  RMax(s, RMax(ln, ld))
      ELSE s

\* lines 249-258: a part's score
partScore(qNorm, p) ==
  LET primary == StrOr(p.number, p.id)
      s       == score(qNorm, primary)
  IN  IF RLess(s, PRIMARY_ENOUGH) /\ (p.name # <<>> \/ p.description # <<>>)
      THEN LET ln    == IF p.name # <<>> THEN scoreLoose(qNorm, p.name) ELSE RZero
               ld    == IF p.description # <<>> THEN scoreLoose(qNorm, p.description)
                        ELSE RZero
               extra == RTimes(RMax(ln, ld), LOOSE_DAMPING)
           IN  RMax(s, extra)
      ELSE s

\* lines 260-265: the object pushed for a part, with its score
partEntry(qNorm, p) ==
  [score |-> partScore(qNorm, p),
   label |-> StrOr(p.number, p.id), sub |-> StrOr(p.name, p.description),
   route |-> Route("parts.html", StrOr(p.number, p.id))]

\* lines 248-267
partCandidate(qNorm, p) ==
  IF RLess(THRESH_PARTS, partEntry(qNorm, p).score)
  THEN Some(partEntry(qNorm, p)) ELSE None

\* lines 271-281: the object pushed for a schematic, with its score
schemEntry(qNorm, sc) ==
  LET combo == sc.modelID \o <<" ">> \o sc.name \o <<" ">> \o sc.id
  IN  [score |-> RMax(score(qNorm, sc.id), scoreLoose(qNorm, combo)),
       label |-> StrOr(sc.name, sc.id),
       sub   |-> IF sc.modelID # <<>>
                 THEN <<"M","o","d","e","l"," ">> \o sc.modelID ELSE <<>>,
       route |-> Route("schematic.html", sc.id)]

\* lines 270-283
schemCandidate(qNorm, sc) ==
  IF RLess(THRESH_SCHEMS, schemEntry(qNorm, sc).score)
  THEN Some(schemEntry(qNorm, sc)) ELSE None

\* for (const e of coll) { ...; if (above) scored.push(candidate) }
RECURSIVE collect(_, _, _)
collect(cand(_, _), qNorm, coll) ==
  IF Len(coll) = 0 THEN <<>>
  ELSE LET rest == collect(cand, qNorm, SubSeq(coll, 1, Len(coll) - 1))
           c    == cand(qNorm, coll[Len(coll)])
       IN  IF IsSome(c) THEN Append(rest, TheValue(c)) ELSE rest

\* The comparator of an ascending sort.
cmpScoreAsc(a, b) == RCompare(a.score, b.score)

\* (a, b) => b.score - a.score
cmpScoreDesc(a, b) == RCompare(b.score, a.score)

\* list.slice(0, n)
slice0(list, n) == SubSeq(list, 1, IF n < Len(list) THEN n ELSE Len(list))

\* [x, y, z].filter(Boolean) on the k-th elements of the three buckets
kth(models, parts, schems, k) ==
  (IF Len(models) >= k THEN <<models[k]>> ELSE <<>>)
  \o (IF Len(parts) >= k THEN <<parts[k]>> ELSE <<>>)
  \o (IF Len(schems) >= k THEN <<schems[k]>> ELSE <<>>)

\* search.js: pickUniqueRoute (lines 303-311); None is null
pickUniqueRoute(models, parts, schems) ==
  LET tops    == sortBy(cmpScoreDesc, kth(models, parts, schems, 1))
      seconds == sortBy(cmpScoreDesc, kth(models, parts, schems, 2))
  IN  IF Len(tops) = 0 THEN None
      ELSE LET top    == tops[1]
               runner == IF Len(seconds) > 0 THEN seconds[1].score ELSE RZero
           IN  IF RLeq(TOP_MIN, top.score) /\ RGapAtLeast(top.score, runner, GAP_MIN)
               THEN Some(top.route) ELSE None

\* search.js: findBestCandidates (lines 230-301)
findBestCandidates(query, DB, lim) ==
  LET qNorm == key(query)
  IN  IF qNorm = <<>>
      THEN [models |-> <<>>, parts |-> <<>>, schematics |-> <<>>,
            uniqueRoute |-> None, totalFound |-> 0]
      ELSE LET models == slice0(sortBy(cmpScoreDesc,
                                  collect(modelCandidate, qNorm, DB.models)),
                                lim.limitModels)
               parts  == slice0(sortBy(cmpScoreDesc,
                                  collect(partCandidate, qNorm, DB.parts)),
                                lim.limitParts)
               schems == slice0(sortBy(cmpScoreDesc,
                                  collect(schemCandidate, qNorm, DB.schematics)),
                                lim.limitSchems)
           IN  [models |-> models, parts |-> parts, schematics |-> schems,
                uniqueRoute |-> pickUniqueRoute(models, parts, schems),
                totalFound |-> Len(models) + Len(parts) + Len(schems)]

(***************************************************************************)
(* Exact resolution: runSearch of both engines, after the catalog is       *)
(* loaded.  An outcome is what the user gets: a navigation (location.href  *)
(* set to a route), an alert or toast, or the suggestions overlay.         *)
(***************************************************************************)
Outcome(kind, route, ref) == [kind |-> kind, route |-> route, ref |-> ref]

NoOutcome == Outcome("none", None, 0)

\* An own property key that is an array index ("0", "12", no leading zero):
\* Object.values lists these first, in ascending numeric order.
IsArrayIndexKey(k) ==
  /\ Len(k) > 0
  /\ Len(k) <= 9
  /\ \A i \in 1..Len(k) : IsDigit(k[i])
  /\ (Len(k) > 1 => k[1] # "0")

\* Object.values(db.schemsById): array-index keys ascending, then the other
\* keys in the order of their first insertion; the values are references.
RECURSIVE valuesInOrder(_, _, _)
valuesInOrder(before(_, _), map, keys) ==
  IF keys = {} THEN <<>>
  ELSE LET k == CHOOSE x \in keys : \A y \in keys : x = y \/ before(x, y)
       IN  <<map[k]>> \o valuesInOrder(before, map, keys \ {k})

objectValues(map, coll) ==
  LET firstPut(k) == SetMin({i \in 1..Len(coll) : coll[i].id = k})
      before(x, y) ==
        IF IsArrayIndexKey(x) /\ IsArrayIndexKey(y)
        THEN digitsValue(x, 1, 0) < digitsValue(y, 1, 0)
        ELSE IF IsArrayIndexKey(x) THEN TRUE
        ELSE IF IsArrayIndexKey(y) THEN FALSE
        ELSE firstPut(x) < firstPut(y)
  IN  valuesInOrder(before, map, DOMAIN map)

\* list.find(test): the first element passing, or undefined
find(list, test(_)) ==
  LET hits == {i \in 1..Len(list) : test(list[i])}
  IN  IF hits = {} THEN None ELSE Some(list[SetMin(hits)])

\* A resolution that would try the parts before the models.
runSearchPartFirst(q, cat) ==
  LET k      == norm(q)
      model  == Get(cat.modelsByNumber, k)
      part   == OrElse(Get(cat.partsById, q),
                  OrElse(Get(cat.partsByIdLower, k), Get(cat.partsByNumber, k)))
  IN  IF IsSome(part)
      THEN Outcome("part", Some(Route("product.html", cat.parts[TheValue(part)].id)),
                   TheValue(part))
      ELSE IF IsSome(model)
      THEN LET m == cat.models[TheValue(model)]
           IN  Outcome("model", Some(Route("model.html", StrOr(m.modelNumber, m.id))),
                       TheValue(model))
      ELSE Outcome("nomatch", None, 0)

\* part_000: runSearch (lines 241-276), from `const db = await load()` on, with
\* q the trimmed non-empty query.
runSearchLoaded(q, cat) ==
  LET k      == norm(q)
      model  == Get(cat.modelsByNumber, k)
      part   == OrElse(Get(cat.partsById, q),
                  OrElse(Get(cat.partsByIdLower, k), Get(cat.partsByNumber, k)))
      byName(ref) == norm(cat.schematics[ref].name) = k
      schem  == OrElse(Get(cat.schemsById, q),
                       find(objectValues(cat.schemsById, cat.schematics), byName))
  IN  IF IsSome(model)
      THEN LET m == cat.models[TheValue(model)]
           IN  Outcome("model", Some(Route("model.html", StrOr(m.modelNumber, m.id))),
                       TheValue(model))
      ELSE IF IsSome(part)
      THEN Outcome("part", Some(Route("product.html", cat.parts[TheValue(part)].id)),
                   TheValue(part))
      ELSE IF IsSome(schem)
      THEN Outcome("schematic",
                   Some(Route("schematic.html", cat.schematics[TheValue(schem)].id)),
                   TheValue(schem))
      ELSE Outcome("nomatch", None, 0)

\* search.js: window.runSearch (lines 172-202), after `await DB.init()`.
fz_runSearchLoaded(rawQuery, DB) ==
  LET qRaw  == trim(rawQuery)
      q     == key(qRaw)
      model == Get(DB.ix.modelByKey, q)
      part  == OrElse(Get(DB.ix.partByNumberKey, q), Get(DB.ix.partByIdKey, q))
      schem == Get(DB.ix.schematicByKey, q)
      best  == findBestCandidates(qRaw, DB, DefaultLimits)
  IN  IF qRaw = <<>> THEN Outcome("toast", None, 0)
      ELSE IF IsSome(model)
      THEN LET m == DB.models[TheValue(model)]
           IN  Outcome("model", Some(Route("model.html", StrOr(m.modelNumber, m.id))),
                       TheValue(model))
      ELSE IF IsSome(part)
      THEN LET p == DB.parts[TheValue(part)]
           IN  Outcome("part", Some(Route("parts.html", StrOr(p.number, p.id))),
                       TheValue(part))
      ELSE IF IsSome(schem)
      THEN Outcome("schematic",
                   Some(Route("schematic.html", DB.schematics[TheValue(schem)].id)),
                   TheValue(schem))
      ELSE IF IsSome(best.uniqueRoute) THEN Outcome("unique", best.uniqueRoute, 0)
      ELSE Outcome("overlay", None, 0)

(***************************************************************************)
(* State                                                                   *)
(***************************************************************************)
VARIABLES
  engine,   \* which search script the page runs: "csv" (part_000) or "fuzzy" (search.js)
  site,     \* the rows of the served CSV files: [models, schematics, links, parts]
  cache,    \* part_000 _cache: None, or Some([oid, by, cat]) (object id, installing call)
  calls,    \* the load() / DB.init() calls of the session: call -> [pc, got, st]
  fetched,  \* source -> number of fetches issued for it
  ready,    \* search.js DB.ready: [state, st] (the promise and the statuses it met)
  db,       \* search.js DB: [models, schematics, parts, ix]
  query,    \* the query of the last search
  outcome,  \* what the last search did
  arg,      \* the input of the last call of a pure function
  ret,      \* its result
  input,    \* search.js typeahead: the value of the search field (e.target.value)
  timer,    \* debounce: t, the id of the last timer set, 0 for null
  timers,   \* the timers set and neither fired nor cleared: [id, due]
  waiting,  \* the handler runs suspended at `await DB.init()`, by event
  overlay,  \* the suggestions overlay: None (closed) or Some([query, found])
  now,      \* the time in ms
  events,   \* history: the input events so far, [at, value]
  ranks,    \* history: the ranks run so far, [ev, seen, val]
  cart,     \* checkout.js: localStorage "cart", the lines [id, qty]
  cartCount, \* localStorage "cartCount"
  cartPage, \* whether the page is cart.html
  modal,    \* the checkout modal: "closed" or "open"
  form,     \* the values of the fields of the checkout form
  shown,    \* the fields with an error message shown
  inflight, \* the submit handlers suspended at `await buildOrderSummary()`
  drafts,   \* the mailto: windows opened so far, [order, to]
  notice,   \* the last alert
  submits   \* history: the submit events so far, [form, today, empty]

\* the state of the typeahead of search.js
typing == <<input, timer, timers, waiting, overlay, now, events, ranks>>

\* the state of the checkout of checkout.js
checkout == <<cart, cartCount, cartPage, modal, form, shown, inflight, drafts, notice, submits>>

vars == <<engine, site, cache, calls, fetched, ready, db, query, outcome, arg, ret, typing,
          checkout>>

(***************************************************************************)
(* Bounds                                                                  *)
(***************************************************************************)
\* load() / DB.init() calls in one session
MaxCalls == 2

\* sources whose fetch does not succeed in one round of fetches
MaxFailing == 1

\* rows of a site's models, schematics and parts files together
MaxRows == 3

Calls == 1..MaxCalls

Statuses == {"ok", "notok", "neterr"}

AllOk == [s \in Sources |-> "ok"]

NoStatus == [s \in Sources |-> "pending"]

FailingRounds ==
  {st \in [Sources -> Statuses] :
     LET bad == {s \in Sources : st[s] # "ok"}
     IN  bad # {} /\ Cardinality(bad) <= MaxFailing}

\* The text of a source of a site.
SiteText(st, src) ==
  CASE src = "models"     -> csvText(ModelsHeader, st.models)
    [] src = "schematics" -> csvText(SchematicsHeader, st.schematics)
    [] src = "links"      -> csvText(LinksHeader, st.links)
    [] src = "parts"      -> csvText(PartsHeader, st.parts)

\* What response.text() gives: the file, or the error page of a non-success status.
BodyOf(st, src, status) == IF status = "ok" THEN SiteText(st, src) ELSE ErrorBody

IdleCall == [pc |-> "idle", got |-> 0, st |-> NoStatus]

UnsetReady == [state |-> "unset", st |-> NoStatus]

\* The state of the page before any script has run a load.
\* Nothing typed: no timer set, the overlay closed.
NoTyping ==
  /\ input = <<>>
  /\ timer = 0
  /\ timers = {}
  /\ waiting = <<>>
  /\ overlay = None
  /\ now = 0
  /\ events = <<>>
  /\ ranks = <<>>

\* The fields of the checkout form, as openModal creates them.
EmptyForm ==
  [firstName |-> <<>>, lastName |-> <<>>, email |-> <<>>, address1 |-> <<>>,
   city |-> <<>>, state |-> <<>>, zip |-> <<>>, card |-> <<>>, exp |-> <<>>, cvv |-> <<>>]

\* No checkout: an empty cart, the modal not opened.
NoCheckout ==
  /\ cart = <<>>
  /\ cartCount = 0
  /\ cartPage = FALSE
  /\ modal = "closed"
  /\ form = EmptyForm
  /\ shown = {}
  /\ inflight = <<>>
  /\ drafts = <<>>
  /\ notice = <<>>
  /\ submits = <<>>

PageFresh ==
  /\ NoTyping
  /\ NoCheckout
  /\ cache = None
  /\ calls = [c \in Calls |-> IdleCall]
  /\ fetched = [s \in Sources |-> 0]
  /\ ready = UnsetReady
  /\ db = fz_emptyDB
  /\ query = <<>>
  /\ outcome = NoOutcome

Fresh ==
  /\ PageFresh
  /\ arg = <<>>
  /\ ret = <<>>

\* No page: a function of the scripts is called on its own.
NoSite == [models |-> <<>>, schematics |-> <<>>, links |-> <<>>, parts |-> <<>>]

NotCalled == [fn |-> "none"]

page == <<engine, site, cache, calls, fetched, ready, db, query, outcome, typing, checkout>>

(***************************************************************************)
(* Sites and queries of the search specification                           *)
(***************************************************************************)
\* cells
W_M1 == <<"M","1">>
W_P1 == <<"P","1">>
W_S1 == <<"S","1">>
W_S2 == <<"S","2">>
W_Ac == <<"A","c">>
W_A_1 == <<"A","-","1">>
W_a1 == <<"a","1">>
W_Dr == <<"D","r">>
W_N9 == <<"9">>
W_E == <<>>

ModelRowChoices ==
  { <<W_M1, W_Ac, W_A_1>>,     \* id=M1, brand=Ac, modelNumber=A-1
    <<W_P1, W_Ac, W_S1>>,      \* shares its id with a part, its number with a schematic
    <<W_E, W_Ac, W_E>> }       \* neither id nor modelNumber

SchematicRowChoices ==
  { <<W_S1, W_A_1, W_Dr, W_N9, W_E>>,    \* id=S1, modelID=A-1, name=Dr, order=9
    <<W_P1, W_M1, W_a1, W_E, W_E>>,      \* the id of a part, named like a model number
    <<W_S2, W_E, W_Dr, W_E, W_E>> }      \* no modelID

PartRowChoices ==
  { <<W_P1, W_N9, W_Ac, W_Dr, W_E, W_E, W_N9, W_N9>>,   \* id=P1, number=9, name=Dr
    <<W_A_1, W_S1, W_E, W_E, W_E, W_E, W_E, W_E>>,      \* id of a model number
    <<W_E, W_E, W_E, W_Dr, W_E, W_E, W_E, W_E>> }       \* neither id nor number

LinkRows == << <<W_S1, W_N9, W_N9, W_P1>> >>

RECURSIVE SeqsOfLen(_, _)
SeqsOfLen(S, n) ==
  IF n = 0 THEN {<<>>}
  ELSE {Append(sq, x) : sq \in SeqsOfLen(S, n - 1), x \in S}

SearchSites ==
  UNION { {[models |-> m, schematics |-> sc, links |-> LinkRows, parts |-> p] :
             m \in SeqsOfLen(ModelRowChoices, n[1]),
             sc \in SeqsOfLen(SchematicRowChoices, n[2]),
             p \in SeqsOfLen(PartRowChoices, n[3])} :
          n \in {t \in (0..MaxRows) \X (0..MaxRows) \X (0..MaxRows) :
                   t[1] + t[2] + t[3] <= MaxRows} }

Queries ==
  { W_A_1, <<" ","a","-","1"," ">>, <<"A","1">>, W_P1, W_S1, <<"d","r">>, W_N9, <<"Z">>, <<" ">> }

(***************************************************************************)
(* The search specification: one page, its files served without failure   *)
(* unless stated, the user searching.                                      *)
(***************************************************************************)
InitSearch ==
  /\ engine \in {"csv", "fuzzy"}
  /\ site \in SearchSites
  /\ Fresh

\* part_000 load() with the four fetches succeeding (lines 85-194): the catalog
\* it returns and the cache it leaves.
loadOk(c, st, cch, oid) ==
  IF IsSome(cch) THEN cch
  ELSE Some([oid |-> oid, by |-> c,
             cat |-> buildCatalog(SiteText(st, "models"), SiteText(st, "schematics"),
                                  SiteText(st, "links"), SiteText(st, "parts"))])

\* location.href was set: the page is left, and its script state with it.
Navigated == IsSome(outcome.route)

\* part_000 load() from runSearch or an accessor, the four fetches succeeding.
LoadCsvOk ==
  /\ engine = "csv"
  /\ ~Navigated
  /\ ~IsSome(cache)
  /\ cache' = loadOk(0, site, cache, 1)
  /\ fetched' = [s \in Sources |-> fetched[s] + 1]
  /\ UNCHANGED <<checkout, typing, engine, site, calls, ready, db, query, outcome, arg, ret>>

\* part_000 runSearch(qy): an empty query returns at once; otherwise the part
\* after `await load()`, the catalog being loaded.
SearchCsv(qy) ==
  /\ engine = "csv"
  /\ ~Navigated
  /\ query' = qy
  /\ IF trim(qy) = <<>>
     THEN outcome' = NoOutcome
     ELSE /\ IsSome(cache)
          /\ outcome' = runSearchLoaded(trim(qy), TheValue(cache).cat)
  /\ UNCHANGED <<checkout, typing, engine, site, cache, fetched, calls, ready, db, arg, ret>>

FzSources == {"models", "schematics", "parts"}

\* The fields of DB after init's body ran on the responses of statuses st.
fz_initBody(si, st) ==
  fz_buildDB(BodyOf(si, "models", st["models"]),
             BodyOf(si, "schematics", st["schematics"]),
             BodyOf(si, "parts", st["parts"]))

\* search.js DB.init() (line 167, and the first line of runSearch), the three
\* fetches succeeding.
LoadFzOk ==
  /\ engine = "fuzzy"
  /\ ready.state = "unset"
  /\ ready' = [state |-> "fulfilled", st |-> AllOk]
  /\ db' = fz_initBody(site, AllOk)
  /\ fetched' = [s \in Sources |-> IF s \in FzSources THEN fetched[s] + 1
                                   ELSE fetched[s]]
  /\ UNCHANGED <<checkout, typing, engine, site, cache, calls, query, outcome, arg, ret>>

\* search.js runSearch(qy), after `await DB.init()`.
SearchFz(qy) ==
  /\ engine = "fuzzy"
  /\ ~Navigated
  /\ ready.state = "fulfilled"
  /\ query' = qy
  /\ outcome' = fz_runSearchLoaded(qy, db)
  /\ UNCHANGED <<checkout, typing, engine, site, cache, calls, fetched, ready, db, arg, ret>>

NextSearch ==
  \/ LoadCsvOk
  \/ LoadFzOk
  \/ \E qy \in Queries : SearchCsv(qy)
  \/ \E qy \in Queries : SearchFz(qy)

SpecSearch == InitSearch /\ [][NextSearch]_vars

(***************************************************************************)
(* Exact resolution: what a query matches, read off the collections       *)
(***************************************************************************)
\* The loaded collections of the page's engine.
Loaded == IF engine = "csv" THEN IsSome(cache) ELSE ready.state = "fulfilled"

TheModels == IF engine = "csv" THEN TheValue(cache).cat.models ELSE db.models

TheParts == IF engine = "csv" THEN TheValue(cache).cat.parts ELSE db.parts

TheSchematics == IF engine = "csv" THEN TheValue(cache).cat.schematics ELSE db.schematics

\* The models, parts and schematics the query of the state matches exactly,
\* by the comparison the engine of the page applies to each field.
ModelHits ==
  IF engine = "csv"
  THEN {i \in 1..Len(TheModels) :
          /\ TheModels[i].modelNumber # <<>>
          /\ norm(TheModels[i].modelNumber) = norm(query)}
  ELSE {i \in 1..Len(TheModels) :
          /\ TheModels[i].modelNumber # <<>>
          /\ \/ key(TheModels[i].modelNumber) = key(query)
             \/ TheModels[i].id # <<>> /\ key(TheModels[i].id) = key(query)}

PartHits ==
  IF engine = "csv"
  THEN {i \in 1..Len(TheParts) :
          \/ TheParts[i].id # <<>> /\ norm(TheParts[i].id) = norm(query)
          \/ TheParts[i].number # <<>> /\ norm(TheParts[i].number) = norm(query)}
  ELSE {i \in 1..Len(TheParts) :
          \/ TheParts[i].id # <<>> /\ key(TheParts[i].id) = key(query)
          \/ TheParts[i].number # <<>> /\ key(TheParts[i].number) = key(query)}

SchematicHits ==
  IF engine = "csv"
  THEN {i \in 1..Len(TheSchematics) :
          \/ TheSchematics[i].id = trim(query)
          \/ norm(TheSchematics[i].name) = norm(query)}
  ELSE {i \in 1..Len(TheSchematics) :
          TheSchematics[i].id # <<>> /\ key(TheSchematics[i].id) = key(query)}

\* A search ran to its end on the loaded catalog.
Resolved == Loaded /\ outcome.kind \in {"model", "part", "schematic", "nomatch", "unique", "overlay"}

LifeSites ==
  { [models |-> <<>>, schematics |-> <<>>, links |-> <<>>, parts |-> <<>>],
    [models     |-> << <<W_M1, W_Ac, W_A_1>> >>,
     schematics |-> << <<W_S1, W_A_1, W_Dr, W_N9, W_E>> >>,
     links      |-> LinkRows,
     parts      |-> << <<W_P1, W_N9, W_Ac, W_Dr, W_E, W_E, W_N9, W_N9>> >>],
    [models     |-> << <<W_E, W_Ac, W_E>>, <<W_P1, W_Ac, W_S1>> >>,
     schematics |-> << <<W_S2, W_E, W_Dr, W_E, W_E>>, <<W_P1, W_M1, W_a1, W_E, W_E>> >>,
     links      |-> LinkRows,
     parts      |-> << <<W_E, W_E, W_E, W_Dr, W_E, W_E, W_E, W_E>>,
                       <<W_A_1, W_S1, W_E, W_E, W_E, W_E, W_E, W_E>> >>] }

Init ==
  /\ engine \in {"csv", "fuzzy"}
  /\ site \in LifeSites
  /\ Fresh

\* part_000 load(), up to its await (lines 85-93): the cached object is
\* returned, or the four fetches are issued.
CsvLoadCall(c) ==
  /\ engine = "csv"
  /\ calls[c].pc = "idle"
  /\ IF IsSome(cache)
     THEN /\ calls' = [calls EXCEPT ![c] = [pc |-> "returned", got |-> TheValue(cache).oid,
                                            st |-> NoStatus]]
          /\ UNCHANGED fetched
     ELSE /\ calls' = [calls EXCEPT ![c].pc = "awaiting"]
          /\ fetched' = [s \in Sources |-> fetched[s] + 1]
  /\ UNCHANGED <<checkout, typing, engine, site, cache, ready, db, query, outcome, arg, ret>>

\* part_000 load(), from its await to `return _cache` (lines 95-193), the four
\* responses being ok: the call builds an object of its own and assigns it.
CsvLoadReturn(c) ==
  /\ engine = "csv"
  /\ calls[c].pc = "awaiting"
  /\ cache' = loadOk(c, site, None, c)
  /\ calls' = [calls EXCEPT ![c] = [pc |-> "returned", got |-> c, st |-> AllOk]]
  /\ UNCHANGED <<checkout, typing, engine, site, fetched, ready, db, query, outcome, arg, ret>>

\* part_000 load(), its await throwing: fetchText throws on a response that
\* is not ok (line 76), fetch rejects on a network error.
CsvLoadThrow(c, st) ==
  /\ engine = "csv"
  /\ calls[c].pc = "awaiting"
  /\ st \in FailingRounds
  /\ calls' = [calls EXCEPT ![c] = [pc |-> "failed", got |-> 0, st |-> st]]
  /\ UNCHANGED <<checkout, typing, engine, site, cache, fetched, ready, db, query, outcome, arg, ret>>

FzRounds ==
  {st \in [FzSources -> Statuses] :
     Cardinality({s \in FzSources : st[s] # "ok"}) <= MaxFailing}

\* search.js DB.init() (lines 30-37): the promise of the first call is kept
\* and handed to every later call.
FzInitCall(c) ==
  /\ engine = "fuzzy"
  /\ calls[c].pc = "idle"
  /\ IF ready.state = "unset"
     THEN /\ ready' = [ready EXCEPT !.state = "pending"]
          /\ fetched' = [s \in Sources |-> IF s \in FzSources THEN fetched[s] + 1
                                           ELSE fetched[s]]
     ELSE UNCHANGED <<ready, fetched>>
  /\ calls' = [calls EXCEPT ![c] =
                 [pc  |-> CASE ready.state = "fulfilled" -> "returned"
                            [] ready.state = "rejected"  -> "failed"
                            [] OTHER                     -> "awaiting",
                  got |-> 1, st |-> NoStatus]]
  /\ UNCHANGED <<checkout, typing, engine, site, cache, db, query, outcome, arg, ret>>

\* search.js DB.init(), the body of the promise after its await (lines 38-107):
\* every fetch got a response, whatever its status, and r.text() is parsed.
FzInitFulfil(st) ==
  /\ engine = "fuzzy"
  /\ ready.state = "pending"
  /\ st \in FzRounds
  /\ \A s \in FzSources : st[s] # "neterr"
  /\ db' = fz_initBody(site, st)
  /\ ready' = [state |-> "fulfilled", st |-> st]
  /\ calls' = [c \in Calls |-> IF calls[c].pc = "awaiting"
                               THEN [calls[c] EXCEPT !.pc = "returned"] ELSE calls[c]]
  /\ UNCHANGED <<checkout, typing, engine, site, cache, fetched, query, outcome, arg, ret>>

\* search.js DB.init(), a fetch rejecting (network error): the kept promise
\* rejects.
FzInitReject(st) ==
  /\ engine = "fuzzy"
  /\ ready.state = "pending"
  /\ st \in FzRounds
  /\ \E s \in FzSources : st[s] = "neterr"
  /\ ready' = [state |-> "rejected", st |-> st]
  /\ calls' = [c \in Calls |-> IF calls[c].pc = "awaiting"
                               THEN [calls[c] EXCEPT !.pc = "failed"] ELSE calls[c]]
  /\ UNCHANGED <<checkout, typing, engine, site, cache, fetched, db, query, outcome, arg, ret>>

Next ==
  \/ \E c \in Calls : CsvLoadCall(c)
  \/ \E c \in Calls : CsvLoadReturn(c)
  \/ \E c \in Calls : \E st \in FailingRounds : CsvLoadThrow(c, st)
  \/ \E c \in Calls : FzInitCall(c)
  \/ \E st \in FzRounds : FzInitFulfil(st)
  \/ \E st \in FzRounds : FzInitReject(st)

Spec == Init /\ [][Next]_vars

(***************************************************************************)
(* Loading: the claims                                                     *)
(***************************************************************************)
Failed(status) == status \in {"notok", "neterr"}

\* C2: the catalog is loaded once and cached: while every fetch succeeds, in
\* any interleaving of load() calls, every raw source is fetched at most once
\* and all the calls that returned hold the same catalog object.
C2_LoadedOnce ==
  (/\ \A c \in Calls : calls[c].pc # "failed"
   /\ \A s \in DOMAIN ready.st : ~Failed(ready.st[s]))
  => /\ \A s \in Sources : fetched[s] <= 1
     /\ \A c, d \in Calls :
          calls[c].pc = "returned" /\ calls[d].pc = "returned"
            => calls[c].got = calls[d].got

\* C3: a round of fetches with a source that did not succeed makes the load
\* fail for its callers and installs nothing: no collection, no index.
C3_FailedFetchInstallsNothing ==
  /\ \A c \in Calls :
       (\E s \in Sources : Failed(calls[c].st[s]))
         => /\ calls[c].pc = "failed"
            /\ ~(IsSome(cache) /\ TheValue(cache).by = c)
  /\ (\E s \in DOMAIN ready.st : Failed(ready.st[s]))
       => /\ ready.state = "rejected"
          /\ db = fz_emptyDB
          /\ \A c \in Calls : calls[c].pc \in {"idle", "failed"}

\* An index of the csv catalog: every entry points to an entity of the
\* collection that carries the entry's key, and every entity with a key is
\* entered under it.
IndexComplete(index, coll, keysOf(_)) ==
  /\ \A k \in DOMAIN index :
       index[k] \in 1..Len(coll) /\ k \in keysOf(coll[index[k]])
  /\ \A i \in 1..Len(coll) : keysOf(coll[i]) \subseteq DOMAIN index

\* A grouping index: every list holds entities of the collection filed under
\* their key, and every entity is in the list of its key exactly once.
GroupsComplete(index, coll, keyOf(_)) ==
  /\ \A k \in DOMAIN index : \A j \in 1..Len(index[k]) :
       index[k][j] \in 1..Len(coll) /\ keyOf(coll[index[k][j]]) = k
  /\ \A i \in 1..Len(coll) :
       /\ keyOf(coll[i]) \in DOMAIN index
       /\ Cardinality({j \in 1..Len(index[keyOf(coll[i])]) :
                         index[keyOf(coll[i])][j] = i}) = 1

NonEmpty(S) == S \ {<<>>}

CsvComplete(cat) ==
  /\ cat.models = mapFilter(toModel, keepModel, parseCSV(SiteText(site, "models")))
  /\ cat.schematics =
       mapFilter(toSchematic, keepSchematic, parseCSV(SiteText(site, "schematics")))
  /\ cat.schematicParts = mapFilter(toLink, keepLink, parseCSV(SiteText(site, "links")))
  /\ cat.parts = mapFilter(toPart, keepPart, parseCSV(SiteText(site, "parts")))
  /\ LET numberKey(m) == NonEmpty({m.modelNumber}) IN
       /\ \A k \in DOMAIN cat.modelsByNumber :
            /\ cat.modelsByNumber[k] \in 1..Len(cat.models)
            /\ norm(cat.models[cat.modelsByNumber[k]].modelNumber) = k
       /\ \A i \in 1..Len(cat.models) :
            cat.models[i].modelNumber # <<>>
              => norm(cat.models[i].modelNumber) \in DOMAIN cat.modelsByNumber
  /\ LET idOrNumber(m) == NonEmpty({m.id, m.modelNumber})
     IN  IndexComplete(cat.modelsById, cat.models, idOrNumber)
  /\ LET idOf(x) == NonEmpty({x.id}) IN
       /\ IndexComplete(cat.schemsById, cat.schematics, idOf)
       /\ IndexComplete(cat.partsById, cat.parts, idOf)
  /\ LET lowerId(x) == IF x.id = <<>> THEN {} ELSE {norm(x.id)}
         lowerNumber(x) == IF x.number = <<>> THEN {} ELSE {norm(x.number)}
     IN  /\ IndexComplete(cat.partsByIdLower, cat.parts, lowerId)
         /\ IndexComplete(cat.partsByNumber, cat.parts, lowerNumber)
  /\ LET modelIdOf(x) == x.modelId IN
       GroupsComplete(cat.schemsByModel, cat.schematics, modelIdOf)
  /\ LET schematicIdOf(x) == x.schematicId IN
       GroupsComplete(cat.linkBySchematic, cat.schematicParts, schematicIdOf)

FzComplete(DB, st) ==
  /\ DB.models = mapRows(fz_toModel, fz_parseCSV(BodyOf(site, "models", st["models"])))
  /\ DB.schematics =
       mapRows(fz_toSchematic, fz_parseCSV(BodyOf(site, "schematics", st["schematics"])))
  /\ DB.parts = mapRows(fz_toPart, fz_parseCSV(BodyOf(site, "parts", st["parts"])))
  /\ LET modelKeys(m) == IF m.modelNumber = <<>> THEN {}
                         ELSE {key(m.modelNumber)} \cup {key(x) : x \in NonEmpty({m.id})}
     IN  IndexComplete(DB.ix.modelByKey, DB.models, modelKeys)
  /\ LET idKey(x) == {key(y) : y \in NonEmpty({x.id})}
         numberKey(x) == {key(y) : y \in NonEmpty({x.number})}
     IN  /\ IndexComplete(DB.ix.schematicByKey, DB.schematics, idKey)
         /\ IndexComplete(DB.ix.partByIdKey, DB.parts, idKey)
         /\ IndexComplete(DB.ix.partByNumberKey, DB.parts, numberKey)

\* C4: in every reachable state the catalog a reader sees is absent or
\* complete: its collections are those of the served sources, every index
\* entry points to an entity of its collection, and every entity is entered
\* in each index of its type.
C4_AbsentOrComplete ==
  /\ engine = "csv" => (cache = None \/ CsvComplete(TheValue(cache).cat))
  /\ engine = "fuzzy" =>
       IF ready.state = "fulfilled" THEN FzComplete(db, ready.st) ELSE db = fz_emptyDB

\* A populated catalog is installed while another load is still in flight.
C4_Witness ==
  /\ engine = "csv"
  /\ IsSome(cache)
  /\ TheValue(cache).cat.parts # <<>>
  /\ DOMAIN TheValue(cache).cat.partsByNumber # {}
  /\ \E c \in Calls : calls[c].pc = "awaiting"

(***************************************************************************)
(* Normalisation of the query and kept rows: the claims                    *)
(***************************************************************************)
\* C5: a query that differs from a model's modelNumber only by letter case,
\* surrounding whitespace or grouping punctuation (spaces, hyphens,
\* underscores) resolves to a model of that number.
C5_NormalizedQueryFindsModel ==
  (/\ Resolved
   /\ \E i \in 1..Len(TheModels) :
        /\ TheModels[i].modelNumber # <<>>
        /\ key(TheModels[i].modelNumber) = key(query))
  => /\ outcome.kind = "model"
     /\ key(TheModels[outcome.ref].modelNumber) = key(query)

\* The rows of a served file that meet the required-identifier rule of their
\* entity: cells a and b of the row, one or both of them non-empty.
RowsWithAny(rows, a, b) ==
  {i \in 1..Len(rows) : trim(rows[i][a]) # <<>> \/ trim(rows[i][b]) # <<>>}

RowsWithBoth(rows, a, b) ==
  {i \in 1..Len(rows) : trim(rows[i][a]) # <<>> /\ trim(rows[i][b]) # <<>>}

\* C6: a row is kept as an entity exactly when it meets the rule of its
\* entity: every model and part of the collections has an id or a number,
\* every schematic an id and a model id, every link a schematic id and a part
\* id, no index leads to an entity without them, and as many entities are
\* kept as rows meet the rule.
C6_RowsKeptByRule ==
  Loaded =>
    /\ \A i \in 1..Len(TheModels) :
         TheModels[i].id # <<>> \/ TheModels[i].modelNumber # <<>>
    /\ \A i \in 1..Len(TheParts) :
         TheParts[i].id # <<>> \/ TheParts[i].number # <<>>
    /\ \A i \in 1..Len(TheSchematics) :
         /\ TheSchematics[i].id # <<>>
         /\ IF engine = "csv" THEN TheSchematics[i].modelId # <<>>
            ELSE TheSchematics[i].modelID # <<>>
    /\ engine = "csv" =>
         /\ \A i \in 1..Len(TheValue(cache).cat.schematicParts) :
              /\ TheValue(cache).cat.schematicParts[i].schematicId # <<>>
              /\ TheValue(cache).cat.schematicParts[i].partId # <<>>
         /\ Len(TheValue(cache).cat.schematicParts) =
              Cardinality(RowsWithBoth(site.links, 1, 4))
    /\ Len(TheModels) = Cardinality(RowsWithAny(site.models, 1, 3))
    /\ Len(TheParts) = Cardinality(RowsWithAny(site.parts, 1, 2))
    /\ Len(TheSchematics) = Cardinality(RowsWithBoth(site.schematics, 1, 2))

(***************************************************************************)
(* Currency coercion: the two functions that read a price cell, called on  *)
(* raw strings.  The strings enumerated are written with the digits 1 and  *)
(* 9, so that no amount lies half-way between two cents, the one place     *)
(* where the double n * 100 and the exact product may round apart.         *)
(***************************************************************************)
\* characters of a raw price
MaxMoneyLen == 3

MoneyChars == {"$", "-", ",", ".", "1", "9", "a"}

\* "$1,234.56" and "-5"
MoneyExamples ==
  { <<"$","1",",","2","3","4",".","5","6">>, <<"-","5">> }

MoneyStrings ==
  MoneyExamples \cup UNION {SeqsOfLen(MoneyChars, n) : n \in 0..MaxMoneyLen}

InitMoney ==
  /\ engine = "csv"
  /\ site = NoSite
  /\ PageFresh
  /\ arg \in MoneyStrings
  /\ ret = NotCalled

\* part_000: parseMoneyUSD(arg); the price is null or a number of cents
CallParseMoneyUSD ==
  /\ ret = NotCalled
  /\ ret' = [fn |-> "parseMoneyUSD", price |-> parseMoneyUSD(arg)]
  /\ UNCHANGED <<page, arg>>

\* search.js: toNum(arg); the price is a number, num / den
CallToNum ==
  /\ ret = NotCalled
  /\ ret' = [fn |-> "toNum", price |-> fz_toNum(arg)]
  /\ UNCHANGED <<page, arg>>

NextMoney == CallParseMoneyUSD \/ CallToNum

SpecMoney == InitMoney /\ [][NextMoney]_vars

AllDigits(s) == \A i \in 1..Len(s) : IsDigit(s[i])

\* The price a coercion returned, in cents (num / den), or None for null.
PriceCents ==
  IF ret.fn = "parseMoneyUSD"
  THEN IF IsSome(ret.price) THEN Some([num |-> TheValue(ret.price), den |-> 1]) ELSE None
  ELSE Some([num |-> 100 * ret.price.num, den |-> ret.price.den])

\* C7: currency coercion of a raw price: "$1,234.56" becomes 999.99; a
\* negative amount ("-" and digits, as "-5") becomes 0.00; an empty string
\* or one without any digit becomes null; a plain whole amount is kept, or
\* clamped to 999.99; and every price that is not null lies in [0, 999.99].
C7_MoneyCoercion ==
  ret.fn # "none" =>
    /\ arg = <<"$","1",",","2","3","4",".","5","6">>
         => PriceCents = Some([num |-> MONEY_MAX_CENTS, den |-> 1])
    /\ (Len(arg) > 1 /\ arg[1] = "-" /\ AllDigits(Tail(arg)))
         => (IsSome(PriceCents) /\ TheValue(PriceCents).num = 0)
    /\ (\A i \in 1..Len(arg) : ~IsDigit(arg[i])) => PriceCents = None
    /\ (Len(arg) > 0 /\ AllDigits(arg))
         => /\ IsSome(PriceCents)
            /\ TheValue(PriceCents).num =
                 TheValue(PriceCents).den *
                   (IF 100 * digitsValue(arg, 1, 0) > MONEY_MAX_CENTS
                    THEN MONEY_MAX_CENTS ELSE 100 * digitsValue(arg, 1, 0))
    /\ IsSome(PriceCents)
         => /\ TheValue(PriceCents).num >= 0
            /\ TheValue(PriceCents).num <= MONEY_MAX_CENTS * TheValue(PriceCents).den

(***************************************************************************)
(* The identifier score, called on a normalised query key and a raw        *)
(* candidate string.  The reference strings are longer than the enumerated *)
(* ones; their scores, 1, 0.97 * 5/6 and 0, are far from the values they   *)
(* are compared with.                                                      *)
(***************************************************************************)
\* characters of an enumerated query key and of an enumerated candidate
MaxKeyLen == 2

W_ABC123 == <<"A","B","C","1","2","3">>
W_ABC12 == <<"A","B","C","1","2">>
W_XYZ == <<"X","Y","Z">>

ScoreKeys ==
  {W_ABC123, W_ABC12, W_XYZ} \cup UNION {SeqsOfLen({"A", "B", "1"}, n) : n \in 0..MaxKeyLen}

ScoreHays ==
  {W_ABC123} \cup UNION {SeqsOfLen({"A", "b", "-", "1"}, n) : n \in 0..(MaxKeyLen + 1)}

InitScore ==
  /\ engine = "fuzzy"
  /\ site = NoSite
  /\ PageFresh
  /\ arg \in [q : ScoreKeys, hay : ScoreHays]
  /\ ret = NotCalled

\* search.js: score(arg.q, arg.hay)
CallScore ==
  /\ ret = NotCalled
  /\ ret' = [fn |-> "score", value |-> score(arg.q, arg.hay)]
  /\ UNCHANGED <<page, arg>>

NextScore == CallScore

SpecScore == InitScore /\ [][NextScore]_vars

\* C9, as stated: score("ABC123", "ABC123") = 1.0, as for any query equal to
\* the normalised candidate; score("ABC12", "ABC123") >= 0.9;
\* score("XYZ", "ABC123") < 0.5.
C9_ReferenceValuesAsStated ==
  ret.fn = "score" =>
    /\ (arg.q # <<>> /\ key(arg.hay) = arg.q) => ret.value = ROne
    /\ (arg.q = W_ABC12 /\ arg.hay = W_ABC123) => RLeq(Rat(9, 10), ret.value)
    /\ (arg.q = W_XYZ /\ arg.hay = W_ABC123) => RLess(ret.value, Rat(5, 10))

\* C9, amended: any query equal to the normalised candidate scores 1.0; the
\* prefix "ABC12" of "ABC123" scores 0.97 * 5/6, which is at least 0.8 and
\* below 0.9; "XYZ" against "ABC123" scores below 0.5.
C9_ReferenceValues ==
  ret.fn = "score" =>
    /\ (arg.q # <<>> /\ key(arg.hay) = arg.q) => ret.value = ROne
    /\ (arg.q = W_ABC12 /\ arg.hay = W_ABC123)
         => /\ ret.value = Rat(97 * 5, 100 * 6)
            /\ RLeq(Rat(8, 10), ret.value)
            /\ RLess(ret.value, Rat(9, 10))
    /\ (arg.q = W_XYZ /\ arg.hay = W_ABC123) => RLess(ret.value, Rat(5, 10))

\* The prefix case was scored.
C9_Witness ==
  /\ ret.fn = "score"
  /\ arg.q = W_ABC12
  /\ arg.hay = W_ABC123

(***************************************************************************)
(* Candidate generation: findBestCandidates called on a loaded DB, by the  *)
(* typeahead handler or by runSearch, with the limits of the caller.       *)
(* Query keys have at most 3 characters and candidate keys at most 9: see  *)
(* the note on scores.                                                     *)
(***************************************************************************)
W_AB == <<"A","B">>
W_A_B == <<"A","-","B">>
W_ABC == <<"A","B","C">>
W_1AB == <<"1","A","B">>
W_M2 == <<"M","2">>

RankModelRows ==
  { <<W_M1, W_Ac, W_AB>>,
    <<W_M2, W_Ac, W_A_B>>,     \* the same key as AB
    <<W_E, W_E, W_ABC>>,
    <<W_1AB, W_Ac, W_E>> }     \* no modelNumber: its id stands for it

RankSchematicRows ==
  { <<W_AB, W_M1, W_E, W_N9, W_E>>,
    <<W_1AB, W_E, W_E, W_E, W_E>>,      \* against AB: 0.9 * 2/3, the threshold itself
    <<W_ABC, W_M2, W_Dr, W_E, W_E>> }

RankPartRows ==
  { <<W_P1, W_AB, W_Ac, W_Dr, W_E, W_E, W_N9, W_N9>>,
    <<W_ABC, W_E, W_E, W_E, W_E, W_E, W_E, W_E>>,     \* no number: its id stands for it
    <<W_E, W_E, W_E, W_A_B, W_E, W_E, W_E, W_E>> }    \* found by its name only

RankSites ==
  UNION { {[models |-> m, schematics |-> sc, links |-> <<>>, parts |-> p] :
             m \in SeqsOfLen(RankModelRows, n[1]),
             sc \in SeqsOfLen(RankSchematicRows, n[2]),
             p \in SeqsOfLen(RankPartRows, n[3])} :
          n \in {t \in (0..MaxRows) \X (0..MaxRows) \X (0..MaxRows) :
                   t[1] + t[2] + t[3] <= MaxRows} }

RankQueries == { W_AB, <<"a"," ","b">>, W_ABC, <<"B">>, <<"-">> }

\* the limits of the typeahead handler are 5 each, those of runSearch the defaults
RankLimits ==
  {[limitModels |-> n, limitParts |-> n, limitSchems |-> n] : n \in {1, 2, 5}}
  \cup {DefaultLimits}

InitRank ==
  /\ engine = "fuzzy"
  /\ site \in RankSites
  /\ NoTyping
  /\ NoCheckout
  /\ cache = None
  /\ calls = [c \in Calls |-> IdleCall]
  /\ fetched = [s \in Sources |-> IF s \in FzSources THEN 1 ELSE 0]
  /\ ready = [state |-> "fulfilled", st |-> [s \in FzSources |-> "ok"]]
  /\ db = fz_initBody(site, AllOk)
  /\ query = <<>>
  /\ outcome = NoOutcome
  /\ arg \in [query : RankQueries, lim : RankLimits]
  /\ ret = NotCalled

\* search.js: findBestCandidates(arg.query, DB, arg.lim)
CallFindBestCandidates ==
  /\ ret = NotCalled
  /\ ret' = [fn |-> "findBestCandidates", calls |-> 1,
             out |-> findBestCandidates(arg.query, db, arg.lim)]
  /\ UNCHANGED <<page, arg>>

\* the same call once more, on the same DB
CallFindBestCandidatesAgain ==
  /\ ret.fn = "findBestCandidates"
  /\ ret.calls = 1
  /\ ret' = [fn |-> "findBestCandidates", calls |-> 2, out |-> ret.out,
             again |-> findBestCandidates(arg.query, db, arg.lim)]
  /\ UNCHANGED <<page, arg>>

NextRank == CallFindBestCandidates \/ CallFindBestCandidatesAgain

SpecRank == InitRank /\ [][NextRank]_vars

MinOf(x, y) == IF x <= y THEN x ELSE y

\* A bucket is the first `limit` elements of the stable descending order of
\* the entities of coll scoring above thresh: entity i stands at the place
\* counted by the entities above the threshold that outscore it or that
\* score the same and come before it in the catalog.
BucketRanked(entry(_), coll, thresh, limit, bucket) ==
  LET above == {i \in 1..Len(coll) : RLess(thresh, entry(coll[i]).score)}
      place(i) ==
        1 + Cardinality({j \in above :
                           \/ RLess(entry(coll[i]).score, entry(coll[j]).score)
                           \/ entry(coll[j]).score = entry(coll[i]).score /\ j < i})
  IN  /\ Len(bucket) = MinOf(limit, Cardinality(above))
      /\ \A k \in 1..Len(bucket) :
           /\ RLess(thresh, bucket[k].score)
           /\ k > 1 => RLeq(bucket[k].score, bucket[k - 1].score)
           /\ \E i \in above : place(i) = k /\ bucket[k] = entry(coll[i])

\* C10: each bucket findBestCandidates returns is the first `limit` elements
\* of the stable descending-by-score order of its type's candidates above
\* the threshold (0.55 models and parts, 0.6 schematics): none at or below
\* the threshold, never longer than the limit, scores non-increasing, no
\* omitted candidate outscoring a returned one, equal scores in catalog
\* order; and the same call again returns the same.
C10_BucketsRanked ==
  (ret.fn = "findBestCandidates" /\ key(arg.query) # <<>>) =>
    LET q == key(arg.query)
        modelOf(m) == modelEntry(q, m)
        partOf(p)  == partEntry(q, p)
        schemOf(x) == schemEntry(q, x)
    IN  /\ BucketRanked(modelOf, db.models, THRESH_MODELS, arg.lim.limitModels,
                        ret.out.models)
        /\ BucketRanked(partOf, db.parts, THRESH_PARTS, arg.lim.limitParts,
                        ret.out.parts)
        /\ BucketRanked(schemOf, db.schematics, THRESH_SCHEMS, arg.lim.limitSchems,
                        ret.out.schematics)
        /\ ret.calls = 2 => ret.again = ret.out

\* Three models score above the threshold, two of them the same; the limit
\* of two cuts the bucket.
C10_Witness ==
  /\ ret.fn = "findBestCandidates"
  /\ arg.lim.limitModels = 2
  /\ Len(ret.out.models) = 2
  /\ Cardinality({i \in 1..Len(db.models) :
                    IsSome(modelCandidate(key(arg.query), db.models[i]))}) = 3
  /\ ret.out.models[1].score # ret.out.models[2].score
  /\ ret.out.models[2].label = W_AB

\* C8: uniqueRoute is the route of the single highest-scoring candidate of
\* the three buckets exactly when its score is >= 0.9 and exceeds the score
\* of every other candidate of the three buckets by >= 0.12; otherwise null.
C8_UniqueRouteByGlobalGap ==
  (ret.fn = "findBestCandidates" /\ key(arg.query) # <<>>) =>
    LET all == ret.out.models \o ret.out.parts \o ret.out.schematics
        Confident(i) ==
          /\ RLeq(TOP_MIN, all[i].score)
          /\ \A j \in 1..Len(all) :
               j # i => RGapAtLeast(all[i].score, all[j].score, GAP_MIN)
    IN  IF \E i \in 1..Len(all) : Confident(i)
        THEN \E i \in 1..Len(all) :
               Confident(i) /\ ret.out.uniqueRoute = Some(all[i].route)
        ELSE ret.out.uniqueRoute = None

(***************************************************************************)
(* The accessors on the parts of a schematic, called on a loaded catalog.  *)
(***************************************************************************)
\* part_000: the part an id-or-number resolves to (lines 228 and 235):
\* db.partsById[x] || db.partsByIdLower[norm(x)] || db.partsByNumber[norm(x)]
resolvePart(x, cat) ==
  OrElse(Get(cat.partsById, x),
         OrElse(Get(cat.partsByIdLower, norm(x)), Get(cat.partsByNumber, norm(x))))

\* part_000: listPartsForSchematic (lines 221-230), after `await load()`
listPartsForSchematic(schematicId, cat) ==
  LET links == IF Has(cat.linkBySchematic, schematicId)
               THEN cat.linkBySchematic[schematicId] ELSE <<>>
  IN  [j \in 1..Len(links) |->
         LET l == cat.schematicParts[links[j]]
         IN  [diagramNo |-> l.diagramNo, order |-> l.order, partId |-> l.partId,
              part |-> resolvePart(l.partId, cat)]]

\* search.js: window.DB.listPartsForSchematic (lines 99-105): a warning and []
fz_listPartsForSchematic(schemId) == <<>>

\* links of one served schematic_parts.csv
MaxLinks == 3

W_N1 == <<"1">>
W_N2 == <<"2">>
W_p1 == <<"p","1">>
W_Z == <<"Z">>

LinkRowChoices ==
  { <<W_S1, W_N2, W_N1, W_P1>>,     \* schematicID=S1, diagramNo=2, order=1, partID=P1
    <<W_S1, W_N1, W_N1, W_P1>>,
    <<W_S1, W_N1, W_N1, W_p1>>,     \* the part's id in lower case
    <<W_S1, W_E, W_E, W_Z>>,        \* no order, no diagramNo, no such part
    <<W_S2, W_N1, W_N1, W_N9>>,     \* a part's number
    <<W_S1, W_N1, W_N1, W_E>> }     \* no partID

PartsSites ==
  {[models     |-> << <<W_M1, W_Ac, W_A_1>> >>,
    schematics |-> << <<W_S1, W_A_1, W_Dr, W_N9, W_E>>, <<W_S2, W_A_1, W_Dr, W_E, W_E>> >>,
    links      |-> l,
    parts      |-> << <<W_P1, W_N9, W_Ac, W_Dr, W_E, W_E, W_N9, W_N9>> >>] :
     l \in UNION {SeqsOfLen(LinkRowChoices, n) : n \in 0..MaxLinks}}

SchematicIds == {W_S1, W_S2, W_Z}

InitParts ==
  /\ engine \in {"csv", "fuzzy"}
  /\ site \in PartsSites
  /\ PageFresh
  /\ arg = <<>>
  /\ ret = NotCalled

\* DB.listPartsForSchematic(sid) of the page's engine, its catalog loaded
CallListPartsForSchematic(sid) ==
  /\ Loaded
  /\ ret = NotCalled
  /\ arg' = sid
  /\ ret' = [fn  |-> "listPartsForSchematic",
             out |-> IF engine = "csv"
                     THEN listPartsForSchematic(sid, TheValue(cache).cat)
                     ELSE fz_listPartsForSchematic(sid)]
  /\ UNCHANGED page

NextParts ==
  \/ LoadCsvOk
  \/ LoadFzOk
  \/ \E sid \in SchematicIds : CallListPartsForSchematic(sid)

SpecParts == InitParts /\ [][NextParts]_vars

\* The link a raw row stands for once retained: schematicID, diagramNo,
\* order and partID are the four cells of the row.
LinkOfRow(row) ==
  [schematicId |-> trim(row[1]), diagramNo |-> Coalesce(toInt(row[2]), 0),
   order |-> Coalesce(toInt(row[3]), 0), partId |-> trim(row[4])]

\* The rows of the raw link source that are retained links of schematic sid.
RetainedLinkRows(sid) ==
  {i \in 1..Len(site.links) :
     /\ LinkOfRow(site.links[i]).schematicId = sid
     /\ LinkOfRow(site.links[i]).partId # <<>>}

SameLink(e, l) ==
  e.diagramNo = l.diagramNo /\ e.order = l.order /\ e.partId = l.partId

\* a comes before b in ascending (order, diagramNo, partId) order
LinkBefore(a, b) ==
  \/ a.order < b.order
  \/ a.order = b.order /\ a.diagramNo < b.diagramNo
  \/ a.order = b.order /\ a.diagramNo = b.diagramNo /\ localeCompare(a.partId, b.partId) < 0

\* C11: list-parts-for-schematic returns the schematic's links in ascending
\* (order, diagramNo, partId) order whatever the order of the rows of the
\* raw link source: consecutive entries ascend or are the same link, and
\* each link is returned as many times as the source has rows for it, so
\* that the result is fixed by the rows, not by their order.
C11_LinksSortedWhateverRowOrder ==
  (ret.fn = "listPartsForSchematic" /\ engine = "csv") =>
    /\ \A j \in 1..(Len(ret.out) - 1) :
         LinkBefore(ret.out[j], ret.out[j + 1]) \/ SameLink(ret.out[j], ret.out[j + 1])
    /\ Len(ret.out) = Cardinality(RetainedLinkRows(arg))
    /\ \A i \in RetainedLinkRows(arg) :
         Cardinality({j \in 1..Len(ret.out) : SameLink(ret.out[j], LinkOfRow(site.links[i]))})
           = Cardinality({k \in RetainedLinkRows(arg) :
                            LinkOfRow(site.links[k]) = LinkOfRow(site.links[i])})

\* Three links of one schematic, served in descending order, come back
\* ascending.
C11_Witness ==
  /\ ret.fn = "listPartsForSchematic"
  /\ engine = "csv"
  /\ Len(ret.out) = 3
  /\ LinkBefore(ret.out[1], ret.out[2])
  /\ LinkBefore(ret.out[2], ret.out[3])
  /\ LinkBefore(LinkOfRow(site.links[3]), LinkOfRow(site.links[2]))
  /\ LinkBefore(LinkOfRow(site.links[2]), LinkOfRow(site.links[1]))

\* The parts of the loaded catalog a part id resolves to.
PartsResolving(x) ==
  LET byId    == {i \in 1..Len(TheParts) : TheParts[i].id = x}
      byLower == {i \in 1..Len(TheParts) :
                    TheParts[i].id # <<>> /\ norm(TheParts[i].id) = norm(x)}
      byNum   == {i \in 1..Len(TheParts) :
                    TheParts[i].number # <<>> /\ norm(TheParts[i].number) = norm(x)}
  IN  IF byId # {} THEN byId ELSE IF byLower # {} THEN byLower ELSE byNum

\* C12: list-parts-for-schematic returns one entry per retained link of the
\* schematic, each joined to the part its partId resolves to, with part =
\* null when it resolves to none; an unknown schematic gives the empty list.
C12_OneEntryPerLinkJoined ==
  ret.fn = "listPartsForSchematic" =>
    /\ Len(ret.out) = Cardinality(RetainedLinkRows(arg))
    /\ \A j \in 1..Len(ret.out) :
         /\ \E i \in RetainedLinkRows(arg) : SameLink(ret.out[j], LinkOfRow(site.links[i]))
         /\ IF PartsResolving(ret.out[j].partId) = {}
            THEN ret.out[j].part = None
            ELSE /\ IsSome(ret.out[j].part)
                 /\ TheValue(ret.out[j].part) \in PartsResolving(ret.out[j].partId)

(***************************************************************************)
(* The searches over search.json: part_001 and the short search.js.        *)
(* A document has models (id, modelNumber, optional aliases), parts (id,   *)
(* number) and schematics (id, name); every field is a string.             *)
(***************************************************************************)
\* list.find(test) over the positions of an array: the first index passing
findIndex(hits) == IF hits = {} THEN None ELSE Some(SetMin(hits))

\* part_001: findExact(data, qn) (lines 15-39), the arrays being arrays
findExact(data, qn) ==
  [exactModel |->
     findIndex({i \in 1..Len(data.models) :
        \/ norm(data.models[i].modelNumber) = qn
        \/ /\ IsSome(data.models[i].aliases)
           /\ \E a \in 1..Len(TheValue(data.models[i].aliases)) :
                norm(TheValue(data.models[i].aliases)[a]) = qn}),
   exactPart |->
     findIndex({i \in 1..Len(data.parts) :
        norm(data.parts[i].number) = qn \/ norm(data.parts[i].id) = qn}),
   exactSchematic |->
     findIndex({i \in 1..Len(data.schematics) :
        norm(data.schematics[i].id) = qn \/ norm(data.schematics[i].name) = qn})]

\* part_001: runSearch(query) (lines 41-77); ok is res.ok of the fetch of
\* search.json, data the document it holds.
js_runSearch(rawQuery, ok, data) ==
  LET raw == trim(rawQuery)
      ex  == findExact(data, norm(raw))
  IN  IF raw = <<>> THEN NoOutcome
      ELSE IF ~ok THEN Outcome("error", None, 0)
      ELSE IF IsSome(ex.exactModel)
      THEN Outcome("model",
                   Some(Route("model.html", data.models[TheValue(ex.exactModel)].id)),
                   TheValue(ex.exactModel))
      ELSE IF IsSome(ex.exactPart)
      THEN Outcome("part",
                   Some(Route("product.html", data.parts[TheValue(ex.exactPart)].id)),
                   TheValue(ex.exactPart))
      ELSE IF IsSome(ex.exactSchematic)
      THEN Outcome("schematic",
                   Some(Route("schematic.html",
                              data.schematics[TheValue(ex.exactSchematic)].id)),
                   TheValue(ex.exactSchematic))
      ELSE Outcome("nomatch", None, 0)

\* src/Ecomm Project/search.js: runSearch(query) (lines 1-24); a response that
\* is no JSON document rejects res.json().
simple_runSearch(rawQuery, ok, data) ==
  LET q     == toLowerCase(trim(rawQuery))
      model == findIndex({i \in 1..Len(data.models) :
                            toLowerCase(data.models[i].modelNumber) = q})
      part  == findIndex({i \in 1..Len(data.parts) :
                            toLowerCase(data.parts[i].number) = q})
  IN  IF ~ok THEN Outcome("error", None, 0)
      ELSE IF IsSome(model)
      THEN Outcome("model", Some(Route("model.html", data.models[TheValue(model)].id)),
                   TheValue(model))
      ELSE IF IsSome(part)
      THEN Outcome("part", Some(Route("part.html", data.parts[TheValue(part)].id)),
                   TheValue(part))
      ELSE Outcome("results", Some(Route("results.html", <<>>)), 0)

JsonModelChoices ==
  { [id |-> W_M1, modelNumber |-> W_A_1, aliases |-> None],
    [id |-> W_A_1, modelNumber |-> W_E, aliases |-> Some(<<W_a1>>)],
    [id |-> W_P1, modelNumber |-> W_P1, aliases |-> Some(<<>>)] }

JsonPartChoices ==
  { [id |-> W_P1, number |-> W_N9],
    [id |-> W_N9, number |-> W_P1],
    [id |-> W_S1, number |-> W_Dr] }

JsonSchematicChoices ==
  { [id |-> W_S1, name |-> W_S2],
    [id |-> W_S2, name |-> W_Dr],
    [id |-> W_Dr, name |-> W_A_1] }

\* The search.json documents a site serves.
JsonSites ==
  UNION {{[json |-> [models |-> m, parts |-> p, schematics |-> sc]] :
            m \in SeqsOfLen(JsonModelChoices, t[1]),
            p \in SeqsOfLen(JsonPartChoices, t[2]),
            sc \in SeqsOfLen(JsonSchematicChoices, t[3])} :
         t \in {u \in (0..MaxRows) \X (0..MaxRows) \X (0..MaxRows) :
                  u[1] + u[2] + u[3] <= MaxRows}}

JsonQueries == { W_A_1, W_a1, W_P1, W_N9, W_S2, <<"d","r">>, W_Z, <<" ">> }

InitJson ==
  /\ engine \in {"json", "simple"}
  /\ site \in JsonSites
  /\ Fresh

\* part_001 runSearch(qy): search.json is fetched anew by each search
SearchJson(qy, ok) ==
  /\ engine = "json"
  /\ ~Navigated
  /\ query' = qy
  /\ outcome' = js_runSearch(qy, ok, site.json)
  /\ UNCHANGED <<checkout, typing, engine, site, cache, calls, fetched, ready, db, arg, ret>>

\* src/Ecomm Project/search.js runSearch(qy)
SearchSimple(qy, ok) ==
  /\ engine = "simple"
  /\ ~Navigated
  /\ query' = qy
  /\ outcome' = simple_runSearch(qy, ok, site.json)
  /\ UNCHANGED <<checkout, typing, engine, site, cache, calls, fetched, ready, db, arg, ret>>

NextJson ==
  \/ \E qy \in JsonQueries, ok \in BOOLEAN : SearchJson(qy, ok)
  \/ \E qy \in JsonQueries, ok \in BOOLEAN : SearchSimple(qy, ok)

SpecJson == InitJson /\ [][NextJson]_vars

\* C13: a model route for a model that has both a modelNumber and an id
\* carries the modelNumber (here: in the searches over search.json; the CSV
\* and fuzzy searches build the route from modelNumber || id).
C13_ModelRouteCarriesModelNumber ==
  (outcome.kind = "model"
     /\ site.json.models[outcome.ref].modelNumber # <<>>
     /\ site.json.models[outcome.ref].id # <<>>)
    => TheValue(outcome.route).id = site.json.models[outcome.ref].modelNumber

(***************************************************************************)
(* The normalization keys as functions of their own: key of search.js and  *)
(* norm of part_000, called on a string and on their own result.           *)
(***************************************************************************)
MaxNormLen == 3

NormChars == {" ", "-", "_", "a", "B", "1"}

NormStrings == UNION {SeqsOfLen(NormChars, n) : n \in 0..MaxNormLen}

InitNorm ==
  /\ engine = "none"
  /\ site = NoSite
  /\ PageFresh
  /\ arg \in NormStrings
  /\ ret = NotCalled

CallKey ==
  /\ ret.fn \in {"none", "key"}
  /\ ret' = [fn |-> "key", value |-> key(IF ret.fn = "none" THEN arg ELSE ret.value),
             calls |-> IF ret.fn = "none" THEN 1 ELSE 2]
  /\ UNCHANGED <<page, arg>>

CallNorm ==
  /\ ret.fn \in {"none", "norm"}
  /\ ret' = [fn |-> "norm", value |-> norm(IF ret.fn = "none" THEN arg ELSE ret.value),
             calls |-> IF ret.fn = "none" THEN 1 ELSE 2]
  /\ UNCHANGED <<page, arg>>

NextNorm == CallKey \/ CallNorm

SpecNorm == InitNorm /\ [][NextNorm]_vars

\* C14: the normalization key is idempotent: applied to its own result it
\* returns that result, for key (search.js) and for norm (part_000).
C14_NormKeyIdempotent ==
  [][ret.fn \in {"key", "norm"} => ret'.value = ret.value]_vars

\* A key that differs from the string it was computed from was normalized
\* again.
C14_Witness ==
  /\ ret.fn \in {"key", "norm"}
  /\ ret.calls = 2
  /\ ret.value # arg
  /\ ret.value # <<>>

(***************************************************************************)
(* The two CSV parsers as functions of their own, called on the text of a  *)
(* table: a header line, data lines, and blank lines after them.           *)
(***************************************************************************)
MaxCsvRows == 2

W_ID == <<"I","D">>
W_Model_ID == <<"M","o","d","e","l"," ","I","D">>
W_model_id == <<"m","o","d","e","l","_","i","d">>

\* the empty header stands for the empty text
CsvHeaders == { <<>>, <<W_ID>>, <<W_Model_ID>>, <<W_ID, W_model_id>>, <<K_id, W_Model_ID>> }

CsvCells == { <<>>, <<"a">>, <<" ","a"," ">> }

\* data rows as long as the header or shorter, not blank
CsvRowsFor(header) ==
  {r \in UNION {SeqsOfLen(CsvCells, n) : n \in 1..Len(header)} :
     \E c \in 1..Len(r) : r[c] # <<>>}

CsvTables ==
  UNION {{[header |-> h, rows |-> rs, blank |-> b] :
            rs \in UNION {SeqsOfLen(CsvRowsFor(h), n) : n \in 0..MaxCsvRows},
            b \in 0..MaxCsvRows} :
         h \in CsvHeaders}

\* the text of a table
TableText(t) ==
  IF t.header = <<>> THEN <<>>
  ELSE csvText(t.header, t.rows) \o [i \in 1..t.blank |-> LF]

InitCsv ==
  /\ engine = "none"
  /\ site = NoSite
  /\ PageFresh
  /\ arg \in CsvTables
  /\ ret = NotCalled

\* part_000 parseCSV(text)
CallParseCSV ==
  /\ ret = NotCalled
  /\ ret' = [fn |-> "parseCSV", out |-> parseCSV(TableText(arg))]
  /\ UNCHANGED <<page, arg>>

\* search.js parseCSV(text)
CallFzParseCSV ==
  /\ ret = NotCalled
  /\ ret' = [fn |-> "fz_parseCSV", out |-> fz_parseCSV(TableText(arg))]
  /\ UNCHANGED <<page, arg>>

NextCsv == CallParseCSV \/ CallFzParseCSV

SpecCsv == InitCsv /\ [][NextCsv]_vars

\* The records promised for a table: one per data row, keyed by the
\* canonical headers, each value the trimmed cell of its column or the
\* empty string when the row has no such cell.
RecordsAsPromised(t, out) ==
  /\ Len(out) = Len(t.rows)
  /\ \A r \in 1..Len(out) :
       /\ DOMAIN out[r] = {canonHeader(t.header[c]) : c \in 1..Len(t.header)}
       /\ \A c \in 1..Len(t.header) :
            out[r][canonHeader(t.header[c])]
              = IF c <= Len(t.rows[r]) THEN trim(t.rows[r][c]) ELSE <<>>

\* C15: parse yields one record per row after the header, trailing blank
\* rows discarded; every record has exactly the canonical header keys, each
\* with the trimmed cell of its column, a missing trailing cell reading as
\* the empty string; the empty text yields the empty sequence.
C15_RecordsCanonicalAndTrimmed ==
  ret.fn \in {"parseCSV", "fz_parseCSV"} => RecordsAsPromised(arg, ret.out)

(***************************************************************************)
(* Part lookup: the search and get-part-by-id-or-number on catalogs where  *)
(* one part's number is another part's id.                                 *)
(***************************************************************************)
\* part_000: getPartByIdOrNumber(x) (lines 232-236), after `await load()`
getPartByIdOrNumber(x, cat) ==
  LET k == norm(x)
  IN  OrElse(Get(cat.partsById, x),
             OrElse(Get(cat.partsByIdLower, k), Get(cat.partsByNumber, k)))

\* search.js: window.DB.getPartByIdOrNumber (lines 89-92)
fz_getPartByIdOrNumber(idOrNum, DB) ==
  LET k == key(idOrNum)
  IN  OrElse(Get(DB.ix.partByNumberKey, k), Get(DB.ix.partByIdKey, k))

MaxLookupParts == 2

LookupPartChoices ==
  { <<W_P1, W_N9, W_Ac, W_Dr, W_E, W_E, W_N9, W_N9>>,     \* id=P1, number=9
    <<W_N9, W_Z, W_Ac, W_Dr, W_E, W_E, W_N9, W_N9>>,      \* id=9,  number=Z
    <<W_p1, W_P1, W_Ac, W_Dr, W_E, W_E, W_N9, W_N9>> }    \* id=p1, number=P1

LookupSites ==
  {[models |-> <<>>, schematics |-> <<>>, links |-> <<>>, parts |-> p] :
     p \in UNION {SeqsOfLen(LookupPartChoices, n) : n \in 0..MaxLookupParts}}

LookupQueries == {W_N9, W_P1, W_p1, W_Z}

InitLookup ==
  /\ engine \in {"csv", "fuzzy"}
  /\ site \in LookupSites
  /\ PageFresh
  /\ arg = <<>>
  /\ ret = NotCalled

\* DB.getPartByIdOrNumber(x) of the page's engine, its catalog loaded
CallGetPartByIdOrNumber(x) ==
  /\ Loaded
  /\ ret = NotCalled
  /\ arg' = x
  /\ ret' = [fn  |-> "getPartByIdOrNumber",
             out |-> IF engine = "csv"
                     THEN getPartByIdOrNumber(x, TheValue(cache).cat)
                     ELSE fz_getPartByIdOrNumber(x, db)]
  /\ UNCHANGED page

NextLookup ==
  \/ LoadCsvOk
  \/ LoadFzOk
  \/ \E qy \in LookupQueries : SearchCsv(qy)
  \/ \E qy \in LookupQueries : SearchFz(qy)
  \/ \E x \in LookupQueries : CallGetPartByIdOrNumber(x)

SpecLookup == InitLookup /\ [][NextLookup]_vars

\* C16: part lookup, in the search and in get-part-by-id-or-number, gives
\* the part found by exact id, else by normalized id, else by normalized
\* number: a query that is part A's number and part B's id gives B.
C16_PartLookupOrder ==
  /\ ret.fn = "getPartByIdOrNumber" =>
       IF PartsResolving(arg) = {} THEN ret.out = None
       ELSE IsSome(ret.out) /\ TheValue(ret.out) \in PartsResolving(arg)
  /\ (Resolved /\ trim(query) # <<>>) =>
       IF PartsResolving(trim(query)) = {} THEN outcome.kind # "part"
       ELSE outcome.kind = "part" /\ outcome.ref \in PartsResolving(trim(query))

\* The schematics of search.json a query names: by its id exactly, and by
\* its name whatever the case.
JsonSchematicsById(q) ==
  {i \in 1..Len(site.json.schematics) : site.json.schematics[i].id = q}

JsonSchematicsByName(q) ==
  {i \in 1..Len(site.json.schematics) : norm(site.json.schematics[i].name) = norm(q)}

\* C17: when no model and no part matches, a query that is a schematic's id
\* resolves to that schematic, and otherwise a query that is a schematic's
\* name, whatever the case, resolves to that schematic: the schematic matched
\* by exact id has priority over another one matched by name.
C17_SchematicByIdThenName ==
  (outcome.kind \in {"schematic", "nomatch", "results"}) =>
    IF JsonSchematicsById(trim(query)) # {}
    THEN outcome.kind = "schematic" /\ outcome.ref \in JsonSchematicsById(trim(query))
    ELSE JsonSchematicsByName(trim(query)) # {} =>
           outcome.kind = "schematic" /\ outcome.ref \in JsonSchematicsByName(trim(query))

\* How score matches a candidate text to a query key: structurally (equal
\* to, starting with or containing the key) or through edit distance only.
Structural(qKey, hayRaw) == key(hayRaw) # <<>> /\ includes(key(hayRaw), qKey)

EditDistanceOnly(qKey, hayRaw) == key(hayRaw) # <<>> /\ ~includes(key(hayRaw), qKey)

\* C18, as stated: for one query, a candidate text matched through edit
\* distance only scores strictly lower than every candidate text matched
\* structurally, whatever the lengths.
C18_FuzzyBelowStructuralAsStated ==
  (ret.fn = "score" /\ arg.q # <<>> /\ EditDistanceOnly(arg.q, arg.hay)) =>
    \A other \in ScoreHays :
      Structural(arg.q, other) => RLess(ret.value, score(arg.q, other))

\* C18, amended: a candidate text matched through edit distance only scores
\* below 0.85, hence below an exact match, and strictly lower than every
\* structurally matched candidate whose key is no longer than its own.
C18_FuzzyBelowStructural ==
  (ret.fn = "score" /\ arg.q # <<>> /\ EditDistanceOnly(arg.q, arg.hay)) =>
    /\ RLess(ret.value, Rat(85, 100))
    /\ \A other \in ScoreHays :
         (Structural(arg.q, other) /\ Len(key(other)) <= Len(key(arg.hay)))
           => RLess(ret.value, score(arg.q, other))

\* A near miss was scored, with a structural match of its own length in the
\* candidates and a longer structural match that scores lower.
C18_Witness ==
  /\ ret.fn = "score"
  /\ arg.q # <<>>
  /\ EditDistanceOnly(arg.q, arg.hay)
  /\ RLess(RZero, ret.value)
  /\ \E other \in ScoreHays :
       /\ Structural(arg.q, other)
       /\ key(other) # arg.q
       /\ Len(key(other)) = Len(key(arg.hay))
  /\ \E other \in ScoreHays :
       Structural(arg.q, other) /\ RLess(score(arg.q, other), ret.value)

(***************************************************************************)
(* The typeahead of search.js: the input handler of a search field,       *)
(* wrapped by debounce, and the rank it runs.  Time advances on its own;   *)
(* a timer fires at its due time or later, as the event loop gets to it.   *)
(***************************************************************************)
\* debounce(..., 120) at line 220
DEBOUNCE_MS == 120

\* input events in one session, and steps of 60 ms of the clock
MaxEvents == 3
MaxSteps == 5

InputValues == { <<>>, <<"A">>, W_AB }

TypeSite ==
  [models |-> << <<W_M1, W_Ac, W_AB>> >>, schematics |-> <<>>, links |-> <<>>,
   parts |-> << <<W_P1, W_A_B, W_Ac, W_Dr, W_E, W_E, W_N9, W_N9>> >>]

\* the limits the handler passes (line 214)
TypeaheadLimits == [limitModels |-> 5, limitParts |-> 5, limitSchems |-> 5]

\* A wrapped function that would set its timer without clearing the last one.
debounceNoClear(pending, last, id, at) ==
  pending \cup {[id |-> id, due |-> at + DEBOUNCE_MS]}

\* search.js: debounce (lines 469-472), the wrapped function called at time
\* `at`: clearTimeout(t); t = setTimeout(() => fn(...args), ms), the new
\* timer getting the id `id`.  The timers pending afterwards.
debounce(pending, last, id, at) ==
  {x \in pending : x.id # last} \cup {[id |-> id, due |-> at + DEBOUNCE_MS]}

\* search.js: the handler after `await DB.init()` (lines 213-219): the overlay
\* it leaves, val being e.target.value as it is then.
rankAndShow(val, DB) ==
  IF trim(val) # <<>>
  THEN Some([query |-> val, s |-> findBestCandidates(val, DB, TypeaheadLimits)])
  ELSE None

\* The page after the script ran (line 167: DB.init() is called at once) and
\* DOMContentLoaded attached the handler.
InitTyping ==
  /\ engine = "fuzzy"
  /\ site = TypeSite
  /\ cache = None
  /\ calls = [c \in Calls |-> IdleCall]
  /\ fetched = [s \in Sources |-> IF s \in FzSources THEN 1 ELSE 0]
  /\ ready = [state |-> "pending", st |-> NoStatus]
  /\ db = fz_emptyDB
  /\ query = <<>>
  /\ outcome = NoOutcome
  /\ arg = <<>>
  /\ ret = NotCalled
  /\ NoTyping
  /\ NoCheckout

\* The user changes the field to v: the input event calls the wrapped handler.
InputEvent(v) ==
  /\ Len(events) < MaxEvents
  /\ v # input
  /\ input' = v
  /\ events' = Append(events, [at |-> now, value |-> v])
  /\ timers' = debounce(timers, timer, Len(events) + 1, now)
  /\ timer' = Len(events) + 1
  /\ UNCHANGED <<checkout, engine, site, cache, calls, fetched, ready, db, query, outcome,
                 arg, ret, waiting, overlay, now, ranks>>

\* A due timer fires: the handler runs to `await DB.init()`, and past it in
\* the same turn when the promise is fulfilled already; a rejected promise
\* makes the handler throw.
TimerFires(x) ==
  /\ x \in timers
  /\ x.due <= now
  /\ timers' = timers \ {x}
  /\ CASE ready.state = "fulfilled" ->
            /\ ranks' = Append(ranks, [ev |-> x.id, seen |-> Len(events), val |-> input])
            /\ overlay' = rankAndShow(input, db)
            /\ UNCHANGED waiting
       [] ready.state = "pending" ->
            /\ waiting' = Append(waiting, x.id)
            /\ UNCHANGED <<ranks, overlay>>
       [] OTHER -> UNCHANGED <<ranks, overlay, waiting>>
  /\ UNCHANGED <<checkout, engine, site, cache, calls, fetched, ready, db, query, outcome,
                 arg, ret, input, timer, now, events>>

\* DB.init() is fulfilled (lines 38-107): the handlers waiting for it go on,
\* in the order they came, each reading the field as it is now.
TypingInitFulfil ==
  /\ ready.state = "pending"
  /\ ready' = [state |-> "fulfilled", st |-> AllOk]
  /\ db' = fz_initBody(site, AllOk)
  /\ ranks' = ranks \o [i \in 1..Len(waiting) |->
                          [ev |-> waiting[i], seen |-> Len(events), val |-> input]]
  /\ overlay' = IF waiting = <<>> THEN overlay ELSE rankAndShow(input, db')
  /\ waiting' = <<>>
  /\ UNCHANGED <<checkout, engine, site, cache, calls, fetched, query, outcome, arg, ret,
                 input, timer, timers, now, events>>

\* DB.init() is rejected (a fetch failed): the waiting handlers throw.
TypingInitReject ==
  /\ ready.state = "pending"
  /\ ready' = [state |-> "rejected", st |-> NoStatus]
  /\ waiting' = <<>>
  /\ UNCHANGED <<checkout, engine, site, cache, calls, fetched, db, query, outcome, arg, ret,
                 input, timer, timers, overlay, now, events, ranks>>

\* 60 ms pass
Advance ==
  /\ now < 60 * MaxSteps
  /\ now' = now + 60
  /\ UNCHANGED <<checkout, engine, site, cache, calls, fetched, ready, db, query, outcome,
                 arg, ret, input, timer, timers, waiting, overlay, events, ranks>>

NextTyping ==
  \/ \E v \in InputValues : InputEvent(v)
  \/ \E x \in timers : TimerFires(x)
  \/ TypingInitFulfil
  \/ TypingInitReject
  \/ Advance

SpecTyping == InitTyping /\ [][NextTyping]_vars

\* C19: each input event cancels the rank request still pending, so that at
\* most one is pending, that of the last event; a rank runs only for an
\* event that no other event followed within the 120 ms; and the rank that
\* runs uses the value of the last input event.
C19_DebouncedRank ==
  /\ Cardinality(timers) <= 1
  /\ \A x \in timers : x.id = Len(events)
  /\ \A r \in 1..Len(ranks) :
       /\ \A e \in (ranks[r].ev + 1)..Len(events) :
            events[e].at >= events[ranks[r].ev].at + DEBOUNCE_MS
       /\ ranks[r].val = events[ranks[r].seen].value

\* Three events, the second within 120 ms of the first, the third later: the
\* first was cancelled, the second and the third were ranked.
C19_Witness ==
  /\ Len(events) = 3
  /\ events[2].at < events[1].at + DEBOUNCE_MS
  /\ Len(ranks) = 2
  /\ ranks[1].ev = 2
  /\ ranks[2].ev = 3
  /\ IsSome(overlay)

\* The scores of a part for a query key: of its primary identifier, and the
\* larger loose score of its name and description.
PrimaryScore(qNorm, p) == score(qNorm, StrOr(p.number, p.id))

LooseScore(qNorm, p) == RMax(scoreLoose(qNorm, p.name), scoreLoose(qNorm, p.description))

\* C20: the score of a part candidate is its primary-identifier score when
\* that is 0.7 or more, and otherwise the larger of the primary score and
\* 0.9 times the larger loose score of name and description: it is never
\* below the primary score, and above it only by a dampened loose score.
C20_PartScoreBlend ==
  ret.fn = "findBestCandidates" =>
    \A i \in 1..Len(ret.out.parts) :
      \E j \in 1..Len(db.parts) :
        LET e     == ret.out.parts[i]
            p     == db.parts[j]
            prim  == PrimaryScore(key(arg.query), p)
            loose == LooseScore(key(arg.query), p)
        IN  /\ e.label = StrOr(p.number, p.id)
            /\ e.sub = StrOr(p.name, p.description)
            /\ RLeq(prim, e.score)
            /\ RLeq(Rat(7, 10), prim) => e.score = prim
            /\ RLess(prim, Rat(7, 10)) =>
                 e.score = RMax(prim, Rat(9 * loose.n, 10 * loose.d))

\* A part was a candidate by its name only, and another by its number.
C20_Witness ==
  /\ ret.fn = "findBestCandidates"
  /\ \E i \in 1..Len(ret.out.parts), j \in 1..Len(db.parts) :
       /\ ret.out.parts[i].label = StrOr(db.parts[j].number, db.parts[j].id)
       /\ ret.out.parts[i].sub = StrOr(db.parts[j].name, db.parts[j].description)
       /\ RLess(PrimaryScore(key(arg.query), db.parts[j]), Rat(7, 10))
       /\ RLess(PrimaryScore(key(arg.query), db.parts[j]), ret.out.parts[i].score)
       /\ RLess(ret.out.parts[i].score, LooseScore(key(arg.query), db.parts[j]))
  /\ \E i \in 1..Len(ret.out.parts) : ret.out.parts[i].score = ROne

(***************************************************************************)
(* get-model-by-id on catalogs where one model's modelNumber is another    *)
(* model's id.                                                             *)
(***************************************************************************)
\* part_000: getModelById(id) (lines 199-202), after `await load()`
getModelById(id, cat) == Get(cat.modelsById, id)

\* search.js: window.DB.getModelById (line 87)
fz_getModelById(id, DB) == Get(DB.ix.modelByKey, key(id))

MaxModelRows == 2

ModelIdRowChoices ==
  { <<W_M1, W_Ac, W_M2>>,      \* id=M1, modelNumber=M2
    <<W_M2, W_Ac, W_AB>>,      \* id=M2, modelNumber=AB
    <<W_AB, W_Ac, W_E>> }      \* id=AB, no modelNumber

ModelIdSites ==
  {[models |-> m, schematics |-> <<>>, links |-> <<>>, parts |-> <<>>] :
     m \in UNION {SeqsOfLen(ModelIdRowChoices, n) : n \in 0..MaxModelRows}}

ModelIds == {W_M1, W_M2, W_AB, W_Z}

InitModels ==
  /\ engine \in {"csv", "fuzzy"}
  /\ site \in ModelIdSites
  /\ PageFresh
  /\ arg = <<>>
  /\ ret = NotCalled

\* DB.getModelById(id) of the page's engine, its catalog loaded
CallGetModelById(id) ==
  /\ Loaded
  /\ ret = NotCalled
  /\ arg' = id
  /\ ret' = [fn  |-> "getModelById",
             out |-> IF engine = "csv"
                     THEN getModelById(id, TheValue(cache).cat)
                     ELSE fz_getModelById(id, db)]
  /\ UNCHANGED page

NextModels ==
  \/ LoadCsvOk
  \/ LoadFzOk
  \/ \E id \in ModelIds : CallGetModelById(id)

SpecModels == InitModels /\ [][NextModels]_vars

\* C21: for a loaded model with a non-empty id, get-model-by-id of that id
\* returns a model with that id, whatever the order of the model rows: the
\* alias made of another model's modelNumber never stands in for it.
C21_RealIdNotShadowed ==
  (ret.fn = "getModelById" /\ \E i \in 1..Len(TheModels) : TheModels[i].id = arg) =>
    /\ IsSome(ret.out)
    /\ TheModels[TheValue(ret.out)].id = arg

\* C22: a failed load is not cached: a load called after a load failed, with
\* nothing loaded meanwhile, issues the fetches again and waits for them, so
\* that it can succeed; it does not fail on the failure of the earlier one.
C22_FailedLoadNotCached ==
  [][\A c \in Calls :
       (/\ calls[c].pc = "idle"
        /\ calls'[c].pc # "idle"
        /\ \E d \in Calls : calls[d].pc = "failed"
        /\ ~Loaded)
       => /\ calls'[c].pc = "awaiting"
          /\ fetched'["models"] = fetched["models"] + 1]_vars

(***************************************************************************)
(* checkout.js: the checkout modal of the cart page.                       *)
(***************************************************************************)
\* function stripDigits(s) { return String(s||"").replace(/\D+/g, ""); }
stripDigits(s) == SelectSeq(s, IsDigit)

\* luhnOK (lines 42-51): the digits from the right, every second one doubled
RECURSIVE luhnSum(_, _, _)
luhnSum(digits, i, dbl) ==
  IF i = 0 THEN 0
  ELSE LET d0 == DigitVal(digits[i])
           d1 == IF dbl THEN (IF 2 * d0 > 9 THEN 2 * d0 - 9 ELSE 2 * d0) ELSE d0
       IN  d1 + luhnSum(digits, i - 1, ~dbl)

luhnOK(num) ==
  LET digits == stripDigits(num)
  IN  luhnSum(digits, Len(digits), FALSE) % 10 = 0

\* /^[^\s@]+@[^\s@]+\.[^\s@]+$/.test(email)
emailOK(email) ==
  LET ats == {i \in 1..Len(email) : email[i] = "@"}
  IN  /\ \A i \in 1..Len(email) : ~IsSpace(email[i])
      /\ Cardinality(ats) = 1
      /\ \E a \in ats :
           /\ a > 1
           /\ \E d \in (a + 2)..(Len(email) - 1) : email[d] = "."

IsLetter(c) == \E i \in 1..26 : UpperChars[i] = c \/ LowerChars[i] = c

\* /^(\d{2})\/(\d{2})$/.exec(exp)
expOK(exp) ==
  /\ Len(exp) = 5
  /\ exp[3] = "/"
  /\ \A i \in {1, 2, 4, 5} : IsDigit(exp[i])

MSG_Required == <<"R","e","q","u","i","r","e","d">>
MSG_Invalid == <<"I","n","v","a","l","i","d">>
MSG_Expired == <<"C","a","r","d"," ","e","x","p","i","r","e","d">>

\* A validation that would take any 16 digits for a card number.
validateNoLuhn(f, today) ==
  LET zip  == stripDigits(f.zip)
      card == stripDigits(f.card)
      cvv  == stripDigits(f.cvv)
      exp  == trim(f.exp)
      e1 == IF trim(f.firstName) = <<>> THEN Put(EmptyMap, "firstName", MSG_Required)
            ELSE EmptyMap
      e2 == IF trim(f.lastName) = <<>> THEN Put(e1, "lastName", MSG_Required) ELSE e1
      e3 == IF trim(f.email) = <<>> THEN Put(e2, "email", MSG_Required)
            ELSE IF ~emailOK(trim(f.email)) THEN Put(e2, "email", MSG_Invalid) ELSE e2
      e4 == IF trim(f.address1) = <<>> THEN Put(e3, "address1", MSG_Required) ELSE e3
      e5 == IF trim(f.city) = <<>> THEN Put(e4, "city", MSG_Required) ELSE e4
      e6 == IF ~(Len(trim(f.state)) = 2 /\ \A i \in 1..2 : IsLetter(trim(f.state)[i]))
            THEN Put(e5, "state", MSG_Invalid) ELSE e5
      e7 == IF zip = <<>> THEN Put(e6, "zip", MSG_Required)
            ELSE IF ~(Len(zip) = 5 \/ Len(zip) = 9) THEN Put(e6, "zip", MSG_Invalid) ELSE e6
      e8 == IF Len(card) # 16 THEN Put(e7, "card", MSG_Invalid) ELSE e7
      e9 == IF ~expOK(exp) THEN Put(e8, "exp", MSG_Invalid)
            ELSE LET mm   == digitsValue(SubSeq(exp, 1, 2), 1, 0)
                     year == 2000 + digitsValue(SubSeq(exp, 4, 5), 1, 0)
                     bad  == IF mm < 1 \/ mm > 12 THEN Put(e8, "exp", MSG_Invalid) ELSE e8
                 IN  IF 12 * year + mm < 12 * today.year + today.month
                     THEN Put(bad, "exp", MSG_Expired) ELSE bad
  IN  IF ~(Len(cvv) = 3 \/ Len(cvv) = 4) THEN Put(e9, "cvv", MSG_Invalid) ELSE e9

\* validate(form) (lines 53-98): the errors object, field -> message.  today
\* is the month new Date() falls in; new Date(year, mm, 0, 23, 59, 59, 999)
\* is the last instant of month mm of the year, also for mm outside 1..12.
validate(f, today) ==
  LET zip  == stripDigits(f.zip)
      card == stripDigits(f.card)
      cvv  == stripDigits(f.cvv)
      exp  == trim(f.exp)
      e1 == IF trim(f.firstName) = <<>> THEN Put(EmptyMap, "firstName", MSG_Required)
            ELSE EmptyMap
      e2 == IF trim(f.lastName) = <<>> THEN Put(e1, "lastName", MSG_Required) ELSE e1
      e3 == IF trim(f.email) = <<>> THEN Put(e2, "email", MSG_Required)
            ELSE IF ~emailOK(trim(f.email)) THEN Put(e2, "email", MSG_Invalid) ELSE e2
      e4 == IF trim(f.address1) = <<>> THEN Put(e3, "address1", MSG_Required) ELSE e3
      e5 == IF trim(f.city) = <<>> THEN Put(e4, "city", MSG_Required) ELSE e4
      e6 == IF ~(Len(trim(f.state)) = 2 /\ \A i \in 1..2 : IsLetter(trim(f.state)[i]))
            THEN Put(e5, "state", MSG_Invalid) ELSE e5
      e7 == IF zip = <<>> THEN Put(e6, "zip", MSG_Required)
            ELSE IF ~(Len(zip) = 5 \/ Len(zip) = 9) THEN Put(e6, "zip", MSG_Invalid) ELSE e6
      e8 == IF Len(card) # 16 THEN Put(e7, "card", MSG_Invalid)
            ELSE IF ~luhnOK(card) THEN Put(e7, "card", MSG_Invalid) ELSE e7
      e9 == IF ~expOK(exp) THEN Put(e8, "exp", MSG_Invalid)
            ELSE LET mm   == digitsValue(SubSeq(exp, 1, 2), 1, 0)
                     year == 2000 + digitsValue(SubSeq(exp, 4, 5), 1, 0)
                     bad  == IF mm < 1 \/ mm > 12 THEN Put(e8, "exp", MSG_Invalid) ELSE e8
                 IN  IF 12 * year + mm < 12 * today.year + today.month
                     THEN Put(bad, "exp", MSG_Expired) ELSE bad
  IN  IF ~(Len(cvv) = 3 \/ Len(cvv) = 4) THEN Put(e9, "cvv", MSG_Invalid) ELSE e9

\* submit events in one session
MaxSubmits == 2

W_Card == <<"4","1","1","1","1","1","1","1","1","1","1","1","1","1","1","1">>
W_CardSpaced ==
  <<"4","1","1","1"," ","1","1","1","1"," ","1","1","1","1"," ","1","1","1","1">>
W_CardBad == <<"4","1","1","1","1","1","1","1","1","1","1","1","1","1","1","2">>
W_Mail == <<"a","@","b",".","c">>
W_Zip == <<"1","2","3","4","5">>
W_Exp == <<"1","2","/","3","0">>
W_Cvv == <<"1","2","3">>

ValidForm ==
  [firstName |-> <<"A">>, lastName |-> <<"B">>, email |-> W_Mail, address1 |-> W_N1,
   city |-> <<"C">>, state |-> <<"c","a">>, zip |-> W_Zip, card |-> W_Card,
   exp |-> W_Exp, cvv |-> W_Cvv]

\* forms that pass validation while the card has not expired
GoodForms == { ValidForm, [ValidForm EXCEPT !.card = W_CardSpaced] }

\* forms with one field wrong
BadForms ==
  { [ValidForm EXCEPT !.firstName = <<" ">>],
    [ValidForm EXCEPT !.email = <<"a","@","b">>],
    [ValidForm EXCEPT !.state = <<"C","1">>],
    [ValidForm EXCEPT !.zip = <<"1","2","3","4">>],
    [ValidForm EXCEPT !.card = W_CardBad],
    [ValidForm EXCEPT !.exp = <<"1","3","/","3","0">>],
    [ValidForm EXCEPT !.cvv = <<"1","2">>],
    EmptyForm }

Forms == GoodForms \cup BadForms

\* the months a submit can fall in: before and after 12/30
Todays == { [year |-> 2026, month |-> 11], [year |-> 2031, month |-> 1] }

\* what is expected to pass: a good form, its card not expired
ExpectedValid(f, today) == f \in GoodForms /\ today.year <= 2030

Carts ==
  { <<>>, <<[id |-> W_P1, qty |-> 2]>>, <<[id |-> W_P1, qty |-> 1], [id |-> W_Z, qty |-> 3]>> }

\* setCart (lines 32-38): cart.reduce((s, it) => s + (Number(it.qty)||0), 0)
RECURSIVE countOf(_)
countOf(c) == IF c = <<>> THEN 0 ELSE Head(c).qty + countOf(Tail(c))

OWNER == <<"o","w","n","e","r">>

\* sendEmails (lines 130-173): the two windows opened, one to the customer
\* and one to the shop owner, each with the order and its items.
sendEmails(orderId, customer, summary) ==
  << [order |-> orderId, to |-> customer.email, items |-> summary],
     [order |-> orderId, to |-> OWNER, items |-> summary] >>

\* doClose detaches the form: the handlers in flight keep the values it had.
detach(fl, f) ==
  [i \in 1..Len(fl) |-> IF fl[i].form = None THEN [fl[i] EXCEPT !.form = Some(f)] ELSE fl[i]]

without(fl, i) == SubSeq(fl, 1, i - 1) \o SubSeq(fl, i + 1, Len(fl))

\* The cart page, checkout.js loaded over the CSV engine.
InitCheckout ==
  /\ engine = "csv"
  /\ site = NoSite
  /\ cache = None
  /\ calls = [c \in Calls |-> IdleCall]
  /\ fetched = [s \in Sources |-> 0]
  /\ ready = UnsetReady
  /\ db = fz_emptyDB
  /\ query = <<>>
  /\ outcome = NoOutcome
  /\ arg = <<>>
  /\ ret = NotCalled
  /\ NoTyping
  /\ cart \in Carts
  /\ cartCount = countOf(cart)
  /\ cartPage \in BOOLEAN
  /\ modal = "closed"
  /\ form = EmptyForm
  /\ shown = {}
  /\ inflight = <<>>
  /\ drafts = <<>>
  /\ notice = <<>>
  /\ submits = <<>>

Others == <<engine, site, cache, calls, fetched, ready, db, query, outcome, arg, ret, typing>>

\* the checkout button is clicked: openModal (lines 180-242)
OpenModal ==
  /\ modal = "closed"
  /\ modal' = "open"
  /\ form' = EmptyForm
  /\ shown' = {}
  /\ UNCHANGED <<Others, cart, cartCount, cartPage, inflight, drafts, notice, submits>>

\* the user fills the form in
FillForm(f) ==
  /\ modal = "open"
  /\ f # form
  /\ form' = f
  /\ UNCHANGED <<Others, cart, cartCount, cartPage, modal, shown, inflight, drafts, notice,
                 submits>>

\* Cancel, Escape or a click on the overlay: doClose (line 233)
CloseModal ==
  /\ modal = "open"
  /\ modal' = "closed"
  /\ inflight' = detach(inflight, form)
  /\ UNCHANGED <<Others, cart, cartCount, cartPage, form, shown, drafts, notice, submits>>

\* The submit handler up to `await buildOrderSummary()` (lines 244-257);
\* buildOrderSummary reads the cart before its first await (line 108).
Submit(today) ==
  /\ modal = "open"
  /\ Len(submits) < MaxSubmits
  /\ submits' = Append(submits, [empty |-> cart = <<>>,
                                 expected |-> ExpectedValid(form, today)])
  /\ IF cart = <<>>
     THEN /\ notice' = <<"e","m","p","t","y">>
          /\ UNCHANGED <<shown, inflight>>
     ELSE /\ shown' = DOMAIN validate(form, today)
          /\ inflight' = IF validate(form, today) = EmptyMap
                         THEN Append(inflight, [order |-> Len(submits) + 1,
                                                lines |-> cart, form |-> None])
                         ELSE inflight
          /\ UNCHANGED notice
  /\ UNCHANGED <<Others, cart, cartCount, cartPage, modal, form, drafts>>

\* The submit handler from the await on (lines 258-282): the drafts are
\* opened, the cart is cleared, the modal closed; on cart.html the page is
\* loaded again, and the handlers in flight are gone with it.
SummaryDone(i) ==
  /\ i \in 1..Len(inflight)
  /\ LET h        == inflight[i]
         customer == IF h.form = None THEN form ELSE TheValue(h.form)
     IN  drafts' = drafts \o sendEmails(h.order, customer, h.lines)
  /\ cart' = <<>>
  /\ cartCount' = countOf(<<>>)
  /\ modal' = "closed"
  /\ notice' = <<"p","l","a","c","e","d">>
  /\ inflight' = IF cartPage THEN <<>> ELSE detach(without(inflight, i), form)
  /\ UNCHANGED <<Others, cartPage, form, shown, submits>>

\* buildOrderSummary throws (DB.getPartByIdOrNumber rejects): the handler
\* ends there.
SummaryFails(i) ==
  /\ i \in 1..Len(inflight)
  /\ inflight' = without(inflight, i)
  /\ UNCHANGED <<Others, cart, cartCount, cartPage, modal, form, shown, drafts, notice,
                 submits>>

NextCheckout ==
  \/ OpenModal
  \/ \E f \in Forms : FillForm(f)
  \/ CloseModal
  \/ \E today \in Todays : Submit(today)
  \/ \E i \in 1..Len(inflight) : SummaryDone(i)
  \/ \E i \in 1..Len(inflight) : SummaryFails(i)

SpecCheckout == InitCheckout /\ [][NextCheckout]_vars

\* The two drafts of order o are among those opened.
DraftsOpened(ds, o) ==
  /\ \E k \in 1..Len(ds) : ds[k].order = o /\ ds[k].to = OWNER
  /\ \E k \in 1..Len(ds) : ds[k].order = o /\ ds[k].to # OWNER

\* C23: a submit that finds the cart empty, or the form not valid, leaves
\* the stored cart and the cart count as they are, opens no draft and leaves
\* the modal open; the cart changes only by being cleared, by a submit that
\* found a cart and a valid form, the two drafts of its order opened.
C23_FailedSubmitChangesNothing ==
  [][/\ (Len(submits') > Len(submits)
          /\ (submits'[Len(submits')].empty \/ ~submits'[Len(submits')].expected))
        => /\ cart' = cart
           /\ cartCount' = cartCount
           /\ drafts' = drafts
           /\ inflight' = inflight
           /\ modal' = "open"
     /\ (cart' # cart \/ cartCount' # cartCount \/ drafts' # drafts)
        => /\ cart' = <<>>
           /\ cartCount' = 0
           /\ \E o \in 1..Len(submits) :
                /\ ~submits[o].empty
                /\ submits[o].expected
                /\ DraftsOpened(drafts', o)
                /\ ~DraftsOpened(drafts, o)]_vars

\* A submit with a form not valid was followed by a valid one, which opened
\* its drafts and cleared the cart.
C23_Witness ==
  /\ Len(submits) = 2
  /\ ~submits[1].empty
  /\ ~submits[1].expected
  /\ submits[2].expected
  /\ DraftsOpened(drafts, 2)
  /\ ~DraftsOpened(drafts, 1)
  /\ cart = <<>>
  /\ cartCount = 0
  /\ modal = "closed"

====
